---- MODULE Spec2Model ----
(***************************************************************************)
(* Model of the GovInfo ingestion engine: the relational store             *)
(* (db/models.py), the cursor walker (client.py) and the ingestion         *)
(* service (services/ingestion.py).                                        *)
(*                                                                         *)
(* The store is modelled twice: `db` is what has been committed, `sess`    *)
(* is what the one SQLAlchemy session sees (committed rows plus its own    *)
(* flushed, uncommitted changes; the session autoflushes before every      *)
(* query).  commit copies sess to db, a crash or close discards sess.      *)
(***************************************************************************)
EXTENDS Integers, Sequences, FiniteSets, TLC

VARIABLES
  db,          \* committed store
  sess,        \* the session's view of the store
  now,         \* datetime.utcnow()
  pc,          \* where the service is: idle, fetch, record, page_end, final, done, faulted
  kind,        \* which call: "none" yet, "collections", "packages" or "granules"
  args,        \* the run's arguments
  parent,      \* primary key of the run's Collection / Package row
  count,       \* local count
  page_num,    \* local page_num
  offset_mark, \* local offset_mark (the walker's for a package run)
  page,        \* the listing page being processed (the last response)
  idx,         \* position of the next record in page
  served,      \* this run's listing fetches in order: the cursor passed, the response
  log,         \* this run's reconciled records in order: the listing entry, the detail response
  start,       \* the session's view when the run started
  source,      \* which remote catalogue the client talks to: "deep" or "wide"
  prev,        \* what the run that a crash interrupted started from, fetched and reconciled
  calls,       \* how many calls of the service have returned, where calls are counted
  puts,        \* the calls of cache_search_results in order: arguments and clock readings
  added,       \* the objects given to session.add and committed, in order, each with its table
  runs         \* two runs with a session each: where each is, its record, its pending change

vars == <<db, sess, now, pc, kind, args, parent, count, page_num, offset_mark,
          page, idx, served, log, start, source, prev, calls, puts, added, runs>>

runvars == <<kind, args, parent, count, page_num, offset_mark, page, idx,
             served, log, start, source, prev, calls, puts, added, runs>>

----------------------------------------------------------------------------
(* Bounds of the model *)

\* the clock takes the values 0..MaxTime
MaxTime == 1
\* a listing page of the wide catalogue holds at most MaxPageLen records
MaxPageLen == 2
\* a listing of the deep catalogue has at most MaxPages pages
MaxPages == 3
\* a sequence of whole calls of the service has at most MaxCalls calls
MaxCalls == 3
\* the query of a next-page reference drawn from the pieces has at most MaxRefLen pieces
MaxRefLen == 4

----------------------------------------------------------------------------
(* Values *)

\* Python None in a string-valued field
None == "None"
\* Python None in an object-, list- or int-valued field; SQL NULL in a JSON column
Null == [none |-> TRUE]
IsNull(x) == "none" \in DOMAIN x
Some(x) == [some |-> x]

CollCodes == {"BILLS", "FR"}
PkgIds == {"p1", "p2"}

Max(S) == CHOOSE m \in S : \A x \in S : x <= m

\* the two concurrent runs
RunIds == {"run1", "run2"}
\* a run that has not started
IdleRun == [pc |-> "idle", info |-> [none |-> TRUE], op |-> [type |-> "none"], order |-> 0]

----------------------------------------------------------------------------
(* Next-page references and the continuation token.  A reference is a      *)
(* string, modelled as a sequence of pieces; the piece "offsetMark=" is    *)
(* the substring the code searches for and "&" the separator it splits on. *)

OM == "offsetMark="
Amp == "&"
Star == <<"*">>

\* position of the first piece of s equal to sep (0 when there is none)
Find(s, sep) ==
  LET hits == {i \in 1..Len(s) : s[i] = sep}
  IN IF hits = {} THEN 0 ELSE CHOOSE i \in hits : \A j \in hits : i <= j

\* s.split(sep)[0]: the text before the first occurrence of sep
SplitHead(s, sep) == IF Find(s, sep) = 0 THEN s ELSE SubSeq(s, 1, Find(s, sep) - 1)

\* s.split(sep)[1]: the text between the first and the second occurrence of sep
SplitSecond(s, sep) == SplitHead(SubSeq(s, Find(s, sep) + 1, Len(s)), sep)

\* "offsetMark=" in next_page
HasMark(ref) == Find(ref, OM) # 0

\* next_page.split("offsetMark=")[1].split("&")[0]
ExtractMark(ref) == SplitHead(SplitSecond(ref, OM), Amp)

\* `not next_page`: None or the empty string
Falsy(np) == IF IsNull(np) THEN TRUE ELSE np.some = <<>>

RefMark(tok) == Some(<<"u?", OM>> \o tok \o <<Amp, "pageSize=100">>)
RefMarkLast(tok) == Some(<<"u?pageSize=100", Amp, OM>> \o tok)
RefNoMark == Some(<<"u?pageSize=100">>)

\* the walk goes on after any non-empty nextPage
WalkGoesOnAnyRef(np) == ~Falsy(np)

\* client.py lines 144-151, ingestion.py lines 235-242: does the walk go on after
\* a page whose nextPage is np
WalkGoesOn(np) == IF Falsy(np) THEN FALSE ELSE HasMark(np.some)

NextPageRefs == {Null, RefNoMark, RefMark(<<"A">>), RefMarkLast(<<"B">>)}

----------------------------------------------------------------------------
(* Typed records received from the remote source (models/*.py) *)

\* CollectionList.collections entries
Descriptor(code, name, pcount, gcount) ==
  [collection_code |-> code, collection_name |-> name,
   package_count |-> pcount, granule_count |-> gcount]

CollectionLists ==
  { <<Descriptor("BILLS", "Congressional Bills", 1, Null)>>,
    <<Descriptor("BILLS", "Bills", 2, Some(5)), Descriptor("FR", "Federal Register", 1, Null)>>,
    <<Descriptor("FR", "Federal Register", 1, Null), Descriptor("FR", "Fed. Reg.", 3, Some(2))>> }

\* PackageInfo: one entry of a collection listing
PackageInfo(pid, lm) == [package_id |-> pid, last_modified |-> lm, package_link |-> "link"]

PackageInfos == {PackageInfo("p1", "lm1"), PackageInfo("p1", "lm2"), PackageInfo("p2", "lm1")}

\* an instance of the pydantic class cls with the given values of its fields
Typed(cls, fields) == [model |-> cls, fields |-> fields]

LinkKeys == {"txt_link", "xml_link", "pdf_link", "mods_link", "premis_link", "zip_link"}

\* the six declared fields of PackageDownload / GranuleDownload, each None by default
Links(pdf, xml) ==
  [txt_link |-> None, xml_link |-> xml, pdf_link |-> pdf,
   mods_link |-> None, premis_link |-> None, zip_link |-> None]

\* PackageDownload with only the given links set
Download(pdf, xml) == Typed("PackageDownload", Links(pdf, xml))

\* GranuleDownload with only the given links set
GranuleDownload(pdf, xml) == Typed("GranuleDownload", Links(pdf, xml))

\* PackageSummary: two detail payloads per package identifier
SummaryA(pid) ==
  [title |-> "T1", collection_code |-> "BILLS", collection_name |-> "Congressional Bills",
   category |-> "Bills and Statutes", date_issued |-> "2018-04-14", details_link |-> "dl",
   package_id |-> pid, download |-> Download("A", None),
   related |-> Typed("PackageRelated", [bill_status_link |-> "s1"]), last_modified |-> "lm3",
   branch |-> "legislative", pages |-> "10", bill_type |-> "hr", congress |-> "115",
   session |-> "2", bill_number |-> "1625", bill_version |-> "enr", publisher |-> "GPO",
   references |-> Some(<< Typed("PackageReference",
                          [collection_code |-> "USCODE", collection_name |-> "US Code",
                           contents |-> <<>>]) >>)]

SummaryB(pid) ==
  [title |-> "T2", collection_code |-> "FR", collection_name |-> "Federal Register",
   category |-> None, date_issued |-> None, details_link |-> "dl",
   package_id |-> pid, download |-> Download(None, "B"),
   related |-> Null, last_modified |-> None,
   branch |-> None, pages |-> None, bill_type |-> None, congress |-> None,
   session |-> None, bill_number |-> None, bill_version |-> None, publisher |-> None,
   references |-> Some(<<>>)]

PackageSummaries(pid) == {SummaryA(pid), SummaryB(pid)}

\* GranuleInfo: one entry of a granule listing
GranuleInfo(gid, title, class) ==
  [granule_id |-> gid, title |-> title, granule_link |-> "link", granule_class |-> class]

GranuleInfos ==
  {GranuleInfo("g1", "G1", "HOUSE"), GranuleInfo("g1", "G2", None), GranuleInfo("g2", "G1", "HOUSE")}

\* GranuleSummary: two detail payloads per granule identifier
GranuleSummaryA(pid, gid) ==
  [title |-> "GT1", granule_id |-> gid, granule_class |-> "SENATE", package_id |-> pid,
   collection_code |-> "CREC", date_issued |-> "2024-01-03", last_modified |-> "lm3",
   download |-> GranuleDownload("A", None), branch |-> "legislative", pages |-> "1",
   congress |-> "118", session |-> "2"]

GranuleSummaryB(pid, gid) ==
  [title |-> "GT2", granule_id |-> gid, granule_class |-> None, package_id |-> pid,
   collection_code |-> None, date_issued |-> None, last_modified |-> None,
   download |-> Null, branch |-> None, pages |-> None,
   congress |-> None, session |-> None]

GranuleSummaries(pid, gid) == {GranuleSummaryA(pid, gid), GranuleSummaryB(pid, gid)}

\* BaseModel.model_dump(): a plain dict of every declared field by its field name,
\* the unset ones included with the value None
ModelDump(obj) == obj.fields

\* `x.model_dump() if x else None` (a model instance is never falsy)
DumpOrNull(obj) == IF IsNull(obj) THEN Null ELSE ModelDump(obj)

\* `[r.model_dump() for r in refs] if refs else None`: None and [] both give None
DumpListOrNull(refs) ==
  IF IsNull(refs) THEN Null
  ELSE IF refs.some = <<>> THEN Null
  ELSE Some([i \in 1..Len(refs.some) |-> ModelDump(refs.some[i])])

----------------------------------------------------------------------------
(* The store (db/models.py) *)

EmptyStore == [collections |-> {}, packages |-> {}, granules |-> {}, search_cache |-> {}]

\* INTEGER PRIMARY KEY of a new row
NextId(rows) == IF rows = {} THEN 1 ELSE Max({r.id : r \in rows}) + 1

\* Collection(...): columns not given are NULL, the timestamps default to utcnow
NewCollection(rows, d, t) ==
  [id |-> NextId(rows), collection_code |-> d.collection_code,
   collection_name |-> d.collection_name, package_count |-> d.package_count,
   granule_count |-> d.granule_count, created_at |-> t, updated_at |-> t]

\* a Package row with every nullable column NULL
BlankPackage(rows, pid, t) ==
  [id |-> NextId(rows), package_id |-> pid, title |-> None, collection_id |-> 0,
   collection_code |-> None, collection_name |-> None, category |-> None,
   date_issued |-> None, last_modified |-> None, branch |-> None, congress |-> None,
   session |-> None, download_links |-> Null, related_links |-> Null,
   references |-> Null, metadata |-> Null, created_at |-> t, updated_at |-> t]

\* a Granule row with every nullable column NULL
BlankGranule(rows, gid, t) ==
  [id |-> NextId(rows), granule_id |-> gid, title |-> None, package_id |-> 0,
   package_identifier |-> None, granule_class |-> None, collection_code |-> None,
   date_issued |-> None, last_modified |-> None, download_links |-> Null,
   metadata |-> Null, created_at |-> t, updated_at |-> t]

\* session.scalar(select(Collection).where(collection_code == code)): is there a row
HasCollection(s, code) == \E r \in s.collections : r.collection_code = code
GetCollection(s, code) == CHOOSE r \in s.collections : r.collection_code = code

HasPackage(s, pid) == \E r \in s.packages : r.package_id = pid
GetPackage(s, pid) == CHOOSE r \in s.packages : r.package_id = pid

HasGranule(s, gid) == \E r \in s.granules : r.granule_id = gid
GetGranule(s, gid) == CHOOSE r \in s.granules : r.granule_id = gid

\* rows with the row `old` replaced by `new`
Replace(rows, old, new) == (rows \ {old}) \cup {new}

----------------------------------------------------------------------------
(* The Reconciler (services/ingestion.py): each operator gives the         *)
(* session's view after the method, from the view s before it              *)

\* _save_package_basic without the lookup: always a new row
SavePackageBasicNoLookup(s, pkg_info, collection_id, collection_code, t) ==
  [s EXCEPT !.packages = @ \cup
     {[BlankPackage(s.packages, pkg_info.package_id, t) EXCEPT
         !.collection_id = collection_id,
         !.collection_code = collection_code,
         !.last_modified = pkg_info.last_modified]}]

\* the last-modified values of the model from the oldest to the newest
Stamps == <<"lm1", "lm2", "lm3">>
\* the value a is a later time than the value b; no value (None) is later than none
Later(a, b) ==
  IF a = None THEN FALSE
  ELSE IF b = None THEN TRUE
  ELSE (CHOOSE i \in 1..Len(Stamps) : Stamps[i] = a) > (CHOOSE i \in 1..Len(Stamps) : Stamps[i] = b)

\* _save_package_basic that refreshes last_modified only with a later value
SavePackageBasicIfLater(s, pkg_info, collection_id, collection_code, t) ==
  IF HasPackage(s, pkg_info.package_id)
  THEN LET old == GetPackage(s, pkg_info.package_id)
       IN [s EXCEPT !.packages = Replace(@, old,
             [old EXCEPT !.last_modified = IF Later(pkg_info.last_modified, @)
                                           THEN pkg_info.last_modified ELSE @,
                         !.updated_at = t])]
  ELSE [s EXCEPT !.packages = @ \cup
         {[BlankPackage(s.packages, pkg_info.package_id, t) EXCEPT
             !.collection_id = collection_id,
             !.collection_code = collection_code,
             !.last_modified = pkg_info.last_modified]}]

\* _save_package_basic that leaves a stored row as it is
SavePackageBasicKeepsFirst(s, pkg_info, collection_id, collection_code, t) ==
  IF HasPackage(s, pkg_info.package_id) THEN s
  ELSE [s EXCEPT !.packages = @ \cup
         {[BlankPackage(s.packages, pkg_info.package_id, t) EXCEPT
             !.collection_id = collection_id,
             !.collection_code = collection_code,
             !.last_modified = pkg_info.last_modified]}]

\* _save_package_basic that writes a blank row over the stored one
SavePackageBasicBlanks(s, pkg_info, collection_id, collection_code, t) ==
  LET rest == {r \in s.packages : r.package_id # pkg_info.package_id}
  IN [s EXCEPT !.packages = rest \cup
        {[BlankPackage(rest, pkg_info.package_id, t) EXCEPT
            !.collection_id = collection_id,
            !.collection_code = collection_code,
            !.last_modified = pkg_info.last_modified]}]

\* _save_package_basic
SavePackageBasic(s, pkg_info, collection_id, collection_code, t) ==
  IF HasPackage(s, pkg_info.package_id)
  THEN LET old == GetPackage(s, pkg_info.package_id)
       IN [s EXCEPT !.packages = Replace(@, old,
             [old EXCEPT !.last_modified = pkg_info.last_modified, !.updated_at = t])]
  ELSE [s EXCEPT !.packages = @ \cup
         {[BlankPackage(s.packages, pkg_info.package_id, t) EXCEPT
             !.collection_id = collection_id,
             !.collection_code = collection_code,
             !.last_modified = pkg_info.last_modified]}]

\* the dict package_data of _save_package_summary, without its package_id entry
PackageData(sm, collection_id) ==
  [title |-> sm.title,
   collection_id |-> collection_id,
   collection_code |-> sm.collection_code,
   collection_name |-> sm.collection_name,
   category |-> sm.category,
   date_issued |-> sm.date_issued,
   last_modified |-> sm.last_modified,
   branch |-> sm.branch,
   congress |-> sm.congress,
   session |-> sm.session,
   download_links |-> DumpOrNull(sm.download),
   related_links |-> DumpOrNull(sm.related),
   references |-> DumpListOrNull(sm.references),
   metadata |-> [bill_type |-> sm.bill_type, bill_number |-> sm.bill_number,
                 bill_version |-> sm.bill_version, publisher |-> sm.publisher,
                 pages |-> sm.pages]]

\* setattr for every key of data, but a stored download-link blob is kept
SetAllKeepLinks(row, data) ==
  [k \in DOMAIN row |->
     IF k \notin DOMAIN data THEN row[k]
     ELSE IF k # "download_links" THEN data[k]
     ELSE IF IsNull(row[k]) THEN data[k] ELSE row[k]]

\* setattr(row, key, value) for every key of data
SetAll(row, data) == [k \in DOMAIN row |-> IF k \in DOMAIN data THEN data[k] ELSE row[k]]

\* _save_package_summary without the lookup: always a new row
SavePackageSummaryNoLookup(s, sm, collection_id, t) ==
  [s EXCEPT !.packages = @ \cup
     {SetAll(BlankPackage(s.packages, sm.package_id, t), PackageData(sm, collection_id))}]

\* _save_package_summary that creates its row without an owner
SavePackageSummaryNoOwner(s, sm, collection_id, t) ==
  IF HasPackage(s, sm.package_id)
  THEN LET old == GetPackage(s, sm.package_id)
       IN [s EXCEPT !.packages = Replace(@, old,
             [SetAll(old, PackageData(sm, collection_id)) EXCEPT !.updated_at = t])]
  ELSE [s EXCEPT !.packages = @ \cup
         {SetAll(BlankPackage(s.packages, sm.package_id, t), PackageData(sm, 0))}]

\* _save_package_summary
SavePackageSummary(s, sm, collection_id, t) ==
  IF HasPackage(s, sm.package_id)
  THEN LET old == GetPackage(s, sm.package_id)
       IN [s EXCEPT !.packages = Replace(@, old,
             [SetAll(old, PackageData(sm, collection_id)) EXCEPT !.updated_at = t])]
  ELSE [s EXCEPT !.packages = @ \cup
         {SetAll(BlankPackage(s.packages, sm.package_id, t), PackageData(sm, collection_id))}]

\* _save_granule_basic without the lookup: always a new row
SaveGranuleBasicNoLookup(s, granule_info, package_id, package_identifier, t) ==
  [s EXCEPT !.granules = @ \cup
     {[BlankGranule(s.granules, granule_info.granule_id, t) EXCEPT
         !.title = granule_info.title,
         !.package_id = package_id,
         !.package_identifier = package_identifier,
         !.granule_class = granule_info.granule_class]}]

\* _save_granule_basic
SaveGranuleBasic(s, granule_info, package_id, package_identifier, t) ==
  IF HasGranule(s, granule_info.granule_id)
  THEN LET old == GetGranule(s, granule_info.granule_id)
       IN [s EXCEPT !.granules = Replace(@, old,
             [old EXCEPT !.title = granule_info.title, !.updated_at = t])]
  ELSE [s EXCEPT !.granules = @ \cup
         {[BlankGranule(s.granules, granule_info.granule_id, t) EXCEPT
             !.title = granule_info.title,
             !.package_id = package_id,
             !.package_identifier = package_identifier,
             !.granule_class = granule_info.granule_class]}]

\* the dict granule_data of _save_granule_summary, without its granule_id entry
GranuleData(gs, package_id, package_identifier) ==
  [title |-> gs.title,
   package_id |-> package_id,
   package_identifier |-> package_identifier,
   granule_class |-> gs.granule_class,
   collection_code |-> gs.collection_code,
   date_issued |-> gs.date_issued,
   last_modified |-> gs.last_modified,
   download_links |-> DumpOrNull(gs.download),
   metadata |-> [branch |-> gs.branch, pages |-> gs.pages,
                 congress |-> gs.congress, session |-> gs.session]]

\* _save_granule_summary that keeps a stored class when the record has none
SaveGranuleSummaryKeepsClass(s, gs, package_id, package_identifier, t) ==
  IF HasGranule(s, gs.granule_id)
  THEN LET old == GetGranule(s, gs.granule_id)
           data == GranuleData(gs, package_id, package_identifier)
       IN [s EXCEPT !.granules = Replace(@, old,
             [SetAll(old, data)
                EXCEPT !.granule_class = IF data.granule_class = None THEN old.granule_class
                                         ELSE data.granule_class,
                       !.updated_at = t])]
  ELSE [s EXCEPT !.granules = @ \cup
         {SetAll(BlankGranule(s.granules, gs.granule_id, t),
                 GranuleData(gs, package_id, package_identifier))}]

\* _save_granule_summary
SaveGranuleSummary(s, gs, package_id, package_identifier, t) ==
  IF HasGranule(s, gs.granule_id)
  THEN LET old == GetGranule(s, gs.granule_id)
       IN [s EXCEPT !.granules = Replace(@, old,
             [SetAll(old, GranuleData(gs, package_id, package_identifier))
                EXCEPT !.updated_at = t])]
  ELSE [s EXCEPT !.granules = @ \cup
         {SetAll(BlankGranule(s.granules, gs.granule_id, t),
                 GranuleData(gs, package_id, package_identifier))}]

\* one pass of the loop body of ingest_collections
\* a stored code is left as it is
SaveCollectionInsertOnly(s, d, t) ==
  IF HasCollection(s, d.collection_code)
  THEN s
  ELSE [s EXCEPT !.collections = @ \cup {NewCollection(s.collections, d, t)}]

SaveCollection(s, d, t) ==
  IF HasCollection(s, d.collection_code)
  THEN LET old == GetCollection(s, d.collection_code)
       IN [s EXCEPT !.collections = Replace(@, old,
             [old EXCEPT !.collection_name = d.collection_name,
                         !.package_count = d.package_count,
                         !.granule_count = d.granule_count,
                         !.updated_at = t])]
  ELSE [s EXCEPT !.collections = @ \cup {NewCollection(s.collections, d, t)}]

RECURSIVE SaveCollectionsSync(_, _, _)
\* the loop of ingest_collections that drops the stored codes the list lacks
SaveCollectionsSync(s, ds, t) ==
  IF ds = <<>> THEN s
  ELSE LET listed == {ds[i].collection_code : i \in 1..Len(ds)}
           kept == [s EXCEPT !.collections = {c \in @ : c.collection_code \in listed}]
       IN SaveCollectionsSync(SaveCollection(kept, Head(ds), t), Tail(ds), t)

RECURSIVE SaveCollections(_, _, _)
\* the whole loop of ingest_collections over the list ds
SaveCollections(s, ds, t) ==
  IF ds = <<>> THEN s ELSE SaveCollections(SaveCollection(s, Head(ds), t), Tail(ds), t)

\* a delete of the Collection row alone
DeleteCollectionOnly(s, code) ==
  [s EXCEPT !.collections = @ \ {GetCollection(s, code)}]

\* session.delete(collection): the relationship Collection.packages has
\* cascade="all, delete-orphan", and so has Package.granules
DeleteCollection(s, code) ==
  LET c == GetCollection(s, code)
      owned == {r \in s.packages : r.collection_id = c.id}
      below == {g \in s.granules : \E r \in owned : g.package_id = r.id}
  IN [s EXCEPT !.collections = @ \ {c}, !.packages = @ \ owned, !.granules = @ \ below]

\* session.delete(package): the relationship Package.granules cascades
\* a delete of the Package row alone
DeletePackageOnly(s, pid) ==
  [s EXCEPT !.packages = @ \ {GetPackage(s, pid)}]

DeletePackage(s, pid) ==
  LET r == GetPackage(s, pid)
      below == {g \in s.granules : g.package_id = r.id}
  IN [s EXCEPT !.packages = @ \ {r}, !.granules = @ \ below]

----------------------------------------------------------------------------
(* Listing pages served by the remote source *)

RECURSIVE SeqsUpTo(_, _)
\* the sequences over S of length at most n
SeqsUpTo(S, n) ==
  IF n = 0 THEN {<<>>}
  ELSE LET shorter == SeqsUpTo(S, n - 1)
       IN shorter \cup {Append(q, x) : q \in shorter, x \in S}

\* CollectionPackages / GranuleList: the records of the page and its nextPage
Page(records, np) == [records |-> records, next_page |-> np]

\* The remote source is one of two catalogues.  A listing of the deep one has up
\* to MaxPages pages of at most one record, each with one possible detail payload;
\* a listing of the wide one is a single page of up to MaxPageLen records.
Sources == {"deep", "wide"}

\* how many pages a listing of the catalogue src has at most
Depth(src) == IF src = "deep" THEN MaxPages ELSE 1

\* the nextPage values page n of a listing may carry: its last page has no cursor;
\* every page of the endless catalogue carries one
RefsOfPage(src, n) ==
  IF src = "endless" THEN {RefMark(<<"A">>)}
  ELSE IF n < Depth(src) THEN NextPageRefs ELSE {Null, RefNoMark}

\* the record page n of a deep listing holds, if it holds one
DeepPackage(n) == IF n = 2 THEN PackageInfo("p1", "lm2") ELSE PackageInfo("p2", "lm1")
DeepGranule(n) == IF n = 2 THEN GranuleInfo("g1", "G2", None) ELSE GranuleInfo("g2", "G1", "HOUSE")

PackagePages(src, n) ==
  IF src # "wide"
  THEN {Page(r, np) : r \in SeqsUpTo({DeepPackage(n)}, 1),
                      np \in RefsOfPage(src, n)}
  ELSE {Page(r, np) : r \in SeqsUpTo(PackageInfos, MaxPageLen), np \in RefsOfPage(src, n)}

GranulePages(src, n) ==
  IF src # "wide"
  THEN {Page(r, np) : r \in SeqsUpTo({DeepGranule(n)}, 1),
                      np \in RefsOfPage(src, n)}
  ELSE {Page(r, np) : r \in SeqsUpTo(GranuleInfos, MaxPageLen), np \in RefsOfPage(src, n)}

\* what get_package_summary(pid) may return
PackageDetails(src, pid) ==
  IF src # "wide" THEN {SummaryA(pid)} ELSE PackageSummaries(pid)

\* what get_granule_summary(pid, gid) may return
GranuleDetails(src, pid, gid) ==
  IF src # "wide" THEN {GranuleSummaryA(pid, gid)} ELSE GranuleSummaries(pid, gid)

\* max_pages as given by the caller: None or an integer
MaxPagesArgs == {Null, Some(0), Some(1), Some(2)}

\* `max_pages and page_num >= max_pages`
LimitReached(max_pages, n) ==
  IF IsNull(max_pages) THEN FALSE
  ELSE IF max_pages.some = 0 THEN FALSE
  ELSE n >= max_pages.some

\* a fetch that raised; a detail fetch that was not made (fetch_summaries off)
Failed == [failed |-> TRUE]
NotAsked == [notasked |-> TRUE]
IsSummary(resp) == "title" \in DOMAIN resp
NoPage == Page(<<>>, Null)
NoArgs == [none |-> TRUE]

----------------------------------------------------------------------------
(* Initial states.  The database is as earlier calls of the service left   *)
(* it: each seed is built from the empty database (init_db) with the       *)
(* service's own operations, at time 0.                                    *)

SeedCollections == SaveCollections(EmptyStore, <<Descriptor("BILLS", "Congressional Bills", 1, Null)>>, 0)

SeedFull == SavePackageSummary(SeedCollections, SummaryA("p1"), 1, 0)

SeedGranule ==
  SaveGranuleSummary(SeedFull, GranuleSummaryA("p1", "g1"), 1, "p1", 0)

Seeds == {EmptyStore, SeedCollections, SeedGranule}

InitFrom(stores, sources) ==
  /\ db \in stores
  /\ sess = db
  /\ source \in sources
  /\ now = 0
  /\ pc = "idle"
  /\ kind = "none"
  /\ args = NoArgs
  /\ parent = 0
  /\ count = 0
  /\ page_num = 0
  /\ offset_mark = Star
  /\ page = NoPage
  /\ idx = 1
  /\ served = <<>>
  /\ log = <<>>
  /\ start = db
  /\ prev = Null
  /\ calls = 0
  /\ puts = <<>>
  /\ added = <<>>
  /\ runs = [r \in RunIds |-> IdleRun]

Init == InitFrom(Seeds, Sources)

\* datetime.utcnow() advances between two calls of the service
Tick ==
  /\ pc = "idle"
  /\ now < MaxTime
  /\ now' = now + 1
  /\ UNCHANGED <<db, sess, pc, runvars>>

\* session.commit()
Commit(s) == s

----------------------------------------------------------------------------
(* ingest_collections *)

\* list_collections returns; the loop, the commit, return count
IngestCollections ==
  /\ pc = "idle"
  /\ \E ds \in CollectionLists :
       /\ sess' = SaveCollections(sess, ds, now)
       /\ db' = Commit(sess')
       /\ count' = Len(ds)
       /\ log' = [i \in 1..Len(ds) |-> [page |-> 1, info |-> ds[i], resp |-> NotAsked]]
  /\ kind' = "collections"
  /\ args' = NoArgs
  /\ served' = <<>>
  /\ start' = sess
  /\ pc' = "done"
  /\ UNCHANGED <<now, parent, page_num, offset_mark, page, idx, source, prev, calls, puts, added, runs>>

\* list_collections raises (transport error): the call raises
IngestCollectionsFails ==
  /\ pc = "idle"
  /\ kind' = "collections"
  /\ args' = NoArgs
  /\ served' = <<>>
  /\ log' = <<>>
  /\ start' = sess
  /\ pc' = "faulted"
  /\ UNCHANGED <<db, sess, now, parent, count, page_num, offset_mark, page, idx, source, prev, calls, puts, added, runs>>

\* ingest_collections step by step, for what a crash inside it leaves behind

\* line 34: list_collections returns; count = 0
CollectionsListed ==
  /\ pc = "idle"
  /\ \E ds \in CollectionLists :
       /\ page' = Page(ds, Null)
       /\ pc' = IF ds = <<>> THEN "final" ELSE "record"
  /\ kind' = "collections"
  /\ args' = NoArgs
  /\ count' = 0
  /\ idx' = 1
  /\ served' = <<>>
  /\ log' = <<>>
  /\ start' = sess
  /\ UNCHANGED <<db, sess, now, parent, page_num, offset_mark, source, prev, calls, puts,
                 added, runs>>

\* the loop body that commits after each collection
SaveOneCollectionCommits ==
  /\ pc = "record" /\ kind = "collections"
  /\ sess' = SaveCollection(sess, page.records[idx], now)
  /\ db' = Commit(sess')
  /\ log' = Append(log, [page |-> 1, info |-> page.records[idx], resp |-> NotAsked])
  /\ count' = count + 1
  /\ idx' = idx + 1
  /\ pc' = IF idx = Len(page.records) THEN "final" ELSE "record"
  /\ UNCHANGED <<now, kind, args, parent, page_num, offset_mark, page, served, start,
                 source, prev, calls, puts, added, runs>>

\* lines 37-60: one pass of the loop; the change stays pending in the session
SaveOneCollection ==
  /\ pc = "record" /\ kind = "collections"
  /\ sess' = SaveCollection(sess, page.records[idx], now)
  /\ log' = Append(log, [page |-> 1, info |-> page.records[idx], resp |-> NotAsked])
  /\ count' = count + 1
  /\ idx' = idx + 1
  /\ pc' = IF idx = Len(page.records) THEN "final" ELSE "record"
  /\ UNCHANGED <<db, now, kind, args, parent, page_num, offset_mark, page, served, start,
                 source, prev, calls, puts, added, runs>>

\* lines 62-63: self.session.commit(); return count
CollectionsCommit ==
  /\ pc = "final" /\ kind = "collections"
  /\ db' = Commit(sess)
  /\ pc' = "done"
  /\ UNCHANGED <<sess, now, kind, args, parent, count, page_num, offset_mark, page, idx,
                 served, log, start, source, prev, calls, puts, added, runs>>

\* the process dies inside the call: what the session held pending is lost
CollectionsCrash ==
  /\ pc \in {"record", "final"} /\ kind = "collections"
  /\ sess' = db
  /\ pc' = "crashed"
  /\ UNCHANGED <<db, now, kind, args, parent, count, page_num, offset_mark, page, idx,
                 served, log, start, source, prev, calls, puts, added, runs>>

\* the call has returned or raised, or the process is started again: the
\* service is ready for the next call, with the committed store
NextCall ==
  /\ pc \in {"done", "faulted", "crashed"} /\ kind = "collections"
  /\ calls < MaxCalls
  /\ calls' = calls + 1
  /\ sess' = db
  /\ pc' = "idle"
  /\ UNCHANGED <<db, now, kind, args, parent, count, page_num, offset_mark, page, idx,
                 served, log, start, source, prev, puts, added, runs>>

NextCollections ==
  \/ Tick
  \/ CollectionsListed
  \/ IngestCollectionsFails
  \/ SaveOneCollection
  \/ CollectionsCommit
  \/ CollectionsCrash
  \/ NextCall

\* Calls of ingest_collections, each of which may fail at the fetch or be cut
\* short by a crash
SpecCollections == InitFrom(Seeds, {"wide"}) /\ [][NextCollections]_vars

----------------------------------------------------------------------------
(* ingest_collection_packages, with the generator iter_collection_packages *)

\* lines 86-96: the Collection exists; the locals are initialised
IngestPackagesBegin ==
  /\ pc = "idle"
  /\ \E code \in CollCodes, mp \in MaxPagesArgs, fs \in BOOLEAN :
       /\ HasCollection(sess, code)
       /\ args' = [collection_code |-> code, max_pages |-> mp, fetch_summaries |-> fs]
       /\ parent' = GetCollection(sess, code).id
  /\ kind' = "packages"
  /\ count' = 0
  /\ page_num' = 0
  /\ offset_mark' = Star
  /\ page' = NoPage
  /\ idx' = 1
  /\ served' = <<>>
  /\ log' = <<>>
  /\ start' = sess
  /\ pc' = "fetch"
  /\ UNCHANGED <<db, sess, now, source, prev, calls, puts, added, runs>>

\* the lookup of lines 86-93 made after the first listing fetch
IngestPackagesNotFoundLate ==
  /\ pc = "idle"
  /\ \E code \in CollCodes, mp \in MaxPagesArgs, fs \in BOOLEAN :
       /\ ~HasCollection(sess, code)
       /\ args' = [collection_code |-> code, max_pages |-> mp, fetch_summaries |-> fs]
  /\ kind' = "packages"
  /\ served' = <<[cursor |-> Star, page |-> NoPage]>>
  /\ log' = <<>>
  /\ start' = sess
  /\ pc' = "faulted"
  /\ UNCHANGED <<db, sess, now, parent, count, page_num, offset_mark, page, idx, source, prev, calls, puts, added, runs>>

\* lines 92-93: raise ValueError
IngestPackagesNotFound ==
  /\ pc = "idle"
  /\ \E code \in CollCodes, mp \in MaxPagesArgs, fs \in BOOLEAN :
       /\ ~HasCollection(sess, code)
       /\ args' = [collection_code |-> code, max_pages |-> mp, fetch_summaries |-> fs]
  /\ kind' = "packages"
  /\ served' = <<>>
  /\ log' = <<>>
  /\ start' = sess
  /\ pc' = "faulted"
  /\ UNCHANGED <<db, sess, now, parent, count, page_num, offset_mark, page, idx, source, prev, calls, puts, added, runs>>

\* get_collection_packages(..., offset_mark, ...) returns a page
FetchPackages ==
  /\ pc = "fetch" /\ kind = "packages"
  /\ \E pg \in PackagePages(source, Len(served) + 1) :
       /\ page' = pg
       /\ served' = Append(served, [cursor |-> offset_mark, page |-> pg])
       /\ pc' = IF pg.records = <<>> THEN "page_end" ELSE "record"
  /\ idx' = 1
  /\ UNCHANGED <<db, sess, now, kind, args, parent, count, page_num, offset_mark,
                 log, start, source, prev, calls, puts, added, runs>>

\* get_collection_packages raises and the walk takes it for the end of the listing
FetchPackagesFailsSwallowed ==
  /\ pc = "fetch" /\ kind = "packages"
  /\ served' = Append(served, [cursor |-> offset_mark, page |-> Failed])
  /\ pc' = "final"
  /\ UNCHANGED <<db, sess, now, kind, args, parent, count, page_num, offset_mark,
                 page, idx, log, start, source, prev, calls, puts, added, runs>>

\* get_collection_packages raises (transport error): the run raises
FetchPackagesFails ==
  /\ pc = "fetch" /\ kind = "packages"
  /\ served' = Append(served, [cursor |-> offset_mark, page |-> Failed])
  /\ pc' = "faulted"
  /\ UNCHANGED <<db, sess, now, kind, args, parent, count, page_num, offset_mark,
                 page, idx, log, start, source, prev, calls, puts, added, runs>>

\* after the loop body for page.records[idx]
AfterRecord ==
  /\ count' = count + 1
  /\ idx' = idx + 1
  /\ pc' = IF idx = Len(page.records) THEN "page_end" ELSE "record"
  /\ UNCHANGED <<db, now, kind, args, parent, page_num, offset_mark, page, served, start, source, prev, calls, puts, added, runs>>

\* fetch_summaries is off: the basic merge
ReconcilePackageBasic ==
  /\ pc = "record" /\ kind = "packages"
  /\ ~args.fetch_summaries
  /\ LET pkg == page.records[idx]
     IN /\ sess' = SavePackageBasic(sess, pkg, parent, args.collection_code, now)
        /\ log' = Append(log, [page |-> Len(served), info |-> pkg, resp |-> NotAsked])
  /\ AfterRecord

\* get_package_summary returns: the full merge
ReconcilePackageFull ==
  /\ pc = "record" /\ kind = "packages"
  /\ args.fetch_summaries
  /\ LET pkg == page.records[idx]
     IN \E sm \in PackageDetails(source, pkg.package_id) :
          /\ sess' = SavePackageSummary(sess, sm, parent, now)
          /\ log' = Append(log, [page |-> Len(served), info |-> pkg, resp |-> sm])
  /\ AfterRecord

\* get_package_summary raises: the basic merge is done but the record not counted
ReconcilePackageFallbackUncounted ==
  /\ pc = "record" /\ kind = "packages"
  /\ args.fetch_summaries
  /\ LET pkg == page.records[idx]
     IN /\ sess' = SavePackageBasic(sess, pkg, parent, args.collection_code, now)
        /\ log' = Append(log, [page |-> Len(served), info |-> pkg, resp |-> Failed])
  /\ idx' = idx + 1
  /\ pc' = IF idx = Len(page.records) THEN "page_end" ELSE "record"
  /\ UNCHANGED <<db, now, kind, args, parent, count, page_num, offset_mark, page, served,
                 start, source, prev, calls, puts, added, runs>>

\* get_package_summary raises, and the record is counted but not saved
ReconcilePackageFallbackSkips ==
  /\ pc = "record" /\ kind = "packages"
  /\ args.fetch_summaries
  /\ sess' = sess
  /\ log' = Append(log, [page |-> Len(served), info |-> page.records[idx], resp |-> Failed])
  /\ AfterRecord

\* get_package_summary raises and the run raises with it
ReconcilePackageFallbackRaises ==
  /\ pc = "record" /\ kind = "packages"
  /\ args.fetch_summaries
  /\ pc' = "faulted"
  /\ UNCHANGED <<db, sess, now, kind, args, parent, count, page_num, offset_mark, page, idx,
                 served, log, start, source, prev, calls, puts, added, runs>>

\* get_package_summary raises, and the except branch only inserts
ReconcilePackageFallbackInsertOnly ==
  /\ pc = "record" /\ kind = "packages"
  /\ args.fetch_summaries
  /\ LET pkg == page.records[idx]
     IN /\ sess' = SavePackageBasicKeepsFirst(sess, pkg, parent, args.collection_code, now)
        /\ log' = Append(log, [page |-> Len(served), info |-> pkg, resp |-> Failed])
  /\ AfterRecord

\* get_package_summary raises: the except branch does the basic merge
ReconcilePackageFallback ==
  /\ pc = "record" /\ kind = "packages"
  /\ args.fetch_summaries
  /\ LET pkg == page.records[idx]
     IN /\ sess' = SavePackageBasic(sess, pkg, parent, args.collection_code, now)
        /\ log' = Append(log, [page |-> Len(served), info |-> pkg, resp |-> Failed])
  /\ AfterRecord

\* lines 115-117: page_num += 1; the limit is reached: break
PackagesPageBreak ==
  /\ pc = "page_end" /\ kind = "packages"
  /\ page_num' = page_num + 1
  /\ LimitReached(args.max_pages, page_num + 1)
  /\ pc' = "final"
  /\ UNCHANGED <<db, sess, now, kind, args, parent, count, offset_mark, page, idx,
                 served, log, start, source, prev, calls, puts, added, runs>>

\* the generator goes round without the commit of line 119
PackagesPageNextNoCommit ==
  /\ pc = "page_end" /\ kind = "packages"
  /\ page_num' = page_num + 1
  /\ ~LimitReached(args.max_pages, page_num + 1)
  /\ WalkGoesOn(page.next_page)
  /\ offset_mark' = ExtractMark(page.next_page.some)
  /\ pc' = "fetch"
  /\ UNCHANGED <<db, sess, now, kind, args, parent, count, page, idx, served, log, start, source, prev, calls, puts, added, runs>>

\* line 119, then the generator resumes (client.py lines 144-151) and goes round
PackagesPageNext ==
  /\ pc = "page_end" /\ kind = "packages"
  /\ page_num' = page_num + 1
  /\ ~LimitReached(args.max_pages, page_num + 1)
  /\ db' = Commit(sess)
  /\ WalkGoesOn(page.next_page)
  /\ offset_mark' = ExtractMark(page.next_page.some)
  /\ pc' = "fetch"
  /\ UNCHANGED <<sess, now, kind, args, parent, count, page, idx, served, log, start, source, prev, calls, puts, added, runs>>

\* line 119, then the generator resumes and ends: no nextPage, or no offsetMark in it
PackagesPageLast ==
  /\ pc = "page_end" /\ kind = "packages"
  /\ page_num' = page_num + 1
  /\ ~LimitReached(args.max_pages, page_num + 1)
  /\ db' = Commit(sess)
  /\ ~WalkGoesOn(page.next_page)
  /\ pc' = "final"
  /\ UNCHANGED <<sess, now, kind, args, parent, count, offset_mark, page, idx,
                 served, log, start, source, prev, calls, puts, added, runs>>

\* the commit after the loop, and return count
\* the run returns without the commit after the loop
FinalCommitSkipped ==
  /\ pc = "final"
  /\ pc' = "done"
  /\ UNCHANGED <<db, sess, now, runvars>>

FinalCommit ==
  /\ pc = "final"
  /\ db' = Commit(sess)
  /\ pc' = "done"
  /\ UNCHANGED <<sess, now, runvars>>

\* the process dies during a package run: what the session had not committed is
\* lost (scripts/ingest_data.py: a new process opens a new session on the database)
Crash ==
  /\ pc \in {"fetch", "record", "page_end", "final"} /\ kind = "packages"
  /\ IsNull(prev)
  /\ prev' = [start |-> start, served |-> served, log |-> log]
  /\ sess' = db
  /\ pc' = "idle"
  /\ UNCHANGED <<db, now, kind, args, parent, count, page_num, offset_mark, page, idx,
                 served, log, start, source, calls, puts, added, runs>>

\* the interrupted run is started again with the same arguments
IngestPackagesAgain ==
  /\ pc = "idle" /\ kind = "packages"
  /\ ~IsNull(prev)
  /\ HasCollection(sess, args.collection_code)
  /\ parent' = GetCollection(sess, args.collection_code).id
  /\ count' = 0
  /\ page_num' = 0
  /\ offset_mark' = Star
  /\ page' = NoPage
  /\ idx' = 1
  /\ served' = <<>>
  /\ log' = <<>>
  /\ start' = sess
  /\ pc' = "fetch"
  /\ UNCHANGED <<db, sess, now, kind, args, source, prev, calls, puts, added, runs>>

\* the remote source answers the run started again as it answered the interrupted
\* one: the same listing pages and the same detail responses, as far as that one got
SameResponses ==
  IF IsNull(prev) THEN TRUE
  ELSE /\ (Len(served') > Len(served) /\ Len(served') <= Len(prev.served)) =>
            served'[Len(served')].page = prev.served[Len(served')].page
       /\ (Len(log') > Len(log) /\ Len(log') <= Len(prev.log)) =>
            log'[Len(log')].resp = prev.log[Len(log')].resp

NextResume ==
  \/ Tick
  \/ IsNull(prev) /\ IngestPackagesBegin
  \/ IngestPackagesAgain
  \/ FetchPackages /\ SameResponses
  \/ FetchPackagesFails /\ SameResponses
  \/ ReconcilePackageBasic
  \/ ReconcilePackageFull /\ SameResponses
  \/ ReconcilePackageFallback /\ SameResponses
  \/ PackagesPageBreak
  \/ PackagesPageNext
  \/ PackagesPageLast
  \/ FinalCommit
  \/ Crash

\* A package run over a listing of the deep catalogue, on a store that holds the
\* collection, possibly interrupted once by a crash and then started again
SpecResume == InitFrom({SeedCollections, SeedGranule}, {"deep"}) /\ [][NextResume]_vars

----------------------------------------------------------------------------
(* ingest_package_granules *)

\* lines 204-213: the Package exists; the locals are initialised
IngestGranulesBegin ==
  /\ pc = "idle"
  /\ \E pid \in PkgIds, mp \in MaxPagesArgs :
       /\ HasPackage(sess, pid)
       /\ args' = [package_id |-> pid, max_pages |-> mp]
       /\ parent' = GetPackage(sess, pid).id
  /\ kind' = "granules"
  /\ count' = 0
  /\ page_num' = 0
  /\ offset_mark' = Star
  /\ page' = NoPage
  /\ idx' = 1
  /\ served' = <<>>
  /\ log' = <<>>
  /\ start' = sess
  /\ pc' = "fetch"
  /\ UNCHANGED <<db, sess, now, source, prev, calls, puts, added, runs>>

\* lines 208-209: raise ValueError
IngestGranulesNotFound ==
  /\ pc = "idle"
  /\ \E pid \in PkgIds, mp \in MaxPagesArgs :
       /\ ~HasPackage(sess, pid)
       /\ args' = [package_id |-> pid, max_pages |-> mp]
  /\ kind' = "granules"
  /\ served' = <<>>
  /\ log' = <<>>
  /\ start' = sess
  /\ pc' = "faulted"
  /\ UNCHANGED <<db, sess, now, parent, count, page_num, offset_mark, page, idx, source, prev, calls, puts, added, runs>>

\* line 216: get_package_granules(package_id, offset_mark) returns a page
FetchGranules ==
  /\ pc = "fetch" /\ kind = "granules"
  /\ \E pg \in GranulePages(source, Len(served) + 1) :
       /\ page' = pg
       /\ served' = Append(served, [cursor |-> offset_mark, page |-> pg])
       /\ pc' = IF pg.records = <<>> THEN "page_end" ELSE "record"
  /\ idx' = 1
  /\ UNCHANGED <<db, sess, now, kind, args, parent, count, page_num, offset_mark,
                 log, start, source, prev, calls, puts, added, runs>>

\* line 216 raises (transport error): the run raises
FetchGranulesFails ==
  /\ pc = "fetch" /\ kind = "granules"
  /\ served' = Append(served, [cursor |-> offset_mark, page |-> Failed])
  /\ pc' = "faulted"
  /\ UNCHANGED <<db, sess, now, kind, args, parent, count, page_num, offset_mark,
                 page, idx, log, start, source, prev, calls, puts, added, runs>>

\* get_granule_summary returns: the full merge
ReconcileGranuleFull ==
  /\ pc = "record" /\ kind = "granules"
  /\ LET g == page.records[idx]
     IN \E gs \in GranuleDetails(source, args.package_id, g.granule_id) :
          /\ sess' = SaveGranuleSummary(sess, gs, parent, args.package_id, now)
          /\ log' = Append(log, [page |-> Len(served), info |-> g, resp |-> gs])
  /\ AfterRecord

\* get_granule_summary raises: the except branch does the basic merge
ReconcileGranuleFallback ==
  /\ pc = "record" /\ kind = "granules"
  /\ LET g == page.records[idx]
     IN /\ sess' = SaveGranuleBasic(sess, g, parent, args.package_id, now)
        /\ log' = Append(log, [page |-> Len(served), info |-> g, resp |-> Failed])
  /\ AfterRecord

\* lines 231-242: page_num += 1, then one of the three breaks
GranulesPageBreak ==
  /\ pc = "page_end" /\ kind = "granules"
  /\ page_num' = page_num + 1
  /\ IF LimitReached(args.max_pages, page_num + 1) THEN TRUE
     ELSE ~WalkGoesOn(page.next_page)
  /\ pc' = "final"
  /\ UNCHANGED <<db, sess, now, kind, args, parent, count, offset_mark, page, idx,
                 served, log, start, source, prev, calls, puts, added, runs>>

\* no break, but the offset mark stays as it was
GranulesPageNextKeepsCursor ==
  /\ pc = "page_end" /\ kind = "granules"
  /\ page_num' = page_num + 1
  /\ ~LimitReached(args.max_pages, page_num + 1)
  /\ WalkGoesOn(page.next_page)
  /\ db' = Commit(sess)
  /\ pc' = "fetch"
  /\ UNCHANGED <<sess, now, kind, args, parent, count, offset_mark, page, idx, served, log,
                 start, source, prev, calls, puts, added, runs>>

\* the loop goes on whatever max_pages is
GranulesPageNextPastLimit ==
  /\ pc = "page_end" /\ kind = "granules"
  /\ page_num' = page_num + 1
  /\ WalkGoesOn(page.next_page)
  /\ offset_mark' = ExtractMark(page.next_page.some)
  /\ db' = Commit(sess)
  /\ pc' = "fetch"
  /\ UNCHANGED <<sess, now, kind, args, parent, count, page, idx, served, log, start, source, prev, calls, puts, added, runs>>

\* lines 231-244: no break; the offset mark is extracted and the page committed
GranulesPageNext ==
  /\ pc = "page_end" /\ kind = "granules"
  /\ page_num' = page_num + 1
  /\ ~LimitReached(args.max_pages, page_num + 1)
  /\ WalkGoesOn(page.next_page)
  /\ offset_mark' = ExtractMark(page.next_page.some)
  /\ db' = Commit(sess)
  /\ pc' = "fetch"
  /\ UNCHANGED <<sess, now, kind, args, parent, count, page, idx, served, log, start, source, prev, calls, puts, added, runs>>

----------------------------------------------------------------------------

Next ==
  \/ Tick
  \/ IngestCollections
  \/ IngestCollectionsFails
  \/ IngestPackagesBegin
  \/ IngestPackagesNotFound
  \/ FetchPackages
  \/ FetchPackagesFails
  \/ ReconcilePackageBasic
  \/ ReconcilePackageFull
  \/ ReconcilePackageFallback
  \/ PackagesPageBreak
  \/ PackagesPageNext
  \/ PackagesPageLast
  \/ IngestGranulesBegin
  \/ IngestGranulesNotFound
  \/ FetchGranules
  \/ FetchGranulesFails
  \/ ReconcileGranuleFull
  \/ ReconcileGranuleFallback
  \/ GranulesPageBreak
  \/ GranulesPageNext
  \/ FinalCommit

\* One call of the service, from any seed, against either catalogue
Spec == Init /\ [][Next]_vars

----------------------------------------------------------------------------
(* A run to its end.  The service is sequential: a run that has a next     *)
(* step takes it.  The endless catalogue is a listing whose every page     *)
(* carries a cursor; a run against it is given a max_pages of at least 1.  *)

\* the steps of a run after its start
RunSteps ==
  \/ FetchPackages
  \/ FetchPackagesFails
  \/ ReconcilePackageBasic
  \/ ReconcilePackageFull
  \/ ReconcilePackageFallback
  \/ PackagesPageBreak
  \/ PackagesPageNext
  \/ PackagesPageLast
  \/ FetchGranules
  \/ FetchGranulesFails
  \/ ReconcileGranuleFull
  \/ ReconcileGranuleFallback
  \/ GranulesPageBreak
  \/ GranulesPageNext
  \/ FinalCommit

\* the page sequence is finite or max_pages is at least 1
BoundedStart ==
  IF source' = "endless"
  THEN IF IsNull(args'.max_pages) THEN FALSE ELSE args'.max_pages.some >= 1
  ELSE TRUE

NextLive ==
  \/ IngestPackagesBegin /\ BoundedStart
  \/ IngestPackagesNotFound
  \/ IngestGranulesBegin /\ BoundedStart
  \/ IngestGranulesNotFound
  \/ RunSteps

SpecLive ==
  /\ InitFrom({SeedGranule}, {"deep", "endless"})
  /\ [][NextLive]_vars
  /\ WF_vars(RunSteps)

----------------------------------------------------------------------------
(* The loop bodies as functions of the records a run reconciles *)

RECURSIVE ReconcilePackages(_, _, _, _, _)
\* ingest_collection_packages lines 101-113 over the entries es: the full merge
\* where the detail fetch returned, the basic merge where it raised or was not made
ReconcilePackages(s, es, collection_id, collection_code, t) ==
  IF es = <<>> THEN s
  ELSE LET e == Head(es)
           s1 == IF IsSummary(e.resp)
                 THEN SavePackageSummary(s, e.resp, collection_id, t)
                 ELSE SavePackageBasic(s, e.info, collection_id, collection_code, t)
       IN ReconcilePackages(s1, Tail(es), collection_id, collection_code, t)

RECURSIVE ReconcileGranules(_, _, _, _, _)
\* ingest_package_granules lines 218-229 over the entries es
ReconcileGranules(s, es, package_id, package_identifier, t) ==
  IF es = <<>> THEN s
  ELSE LET e == Head(es)
           s1 == IF IsSummary(e.resp)
                 THEN SaveGranuleSummary(s, e.resp, package_id, package_identifier, t)
                 ELSE SaveGranuleBasic(s, e.info, package_id, package_identifier, t)
       IN ReconcileGranules(s1, Tail(es), package_id, package_identifier, t)

----------------------------------------------------------------------------
(* Whole calls.  A call of the service that returns leaves the store as    *)
(* its loop body leaves it over the records it reconciled (ReplayAgrees),  *)
(* with everything committed; here each call is one step.                  *)

\* what one run may reconcile: no record, or one record with its detail response
PackageEntries ==
  {<<>>} \cup
  UNION {{<<[page |-> 1, info |-> i, resp |-> r]>> :
            r \in {Failed, SummaryA(i.package_id), SummaryB(i.package_id)}} :
         i \in {PackageInfo("p1", "lm1"), PackageInfo("p2", "lm1")}}

GranuleEntries(pid) ==
  {<<>>} \cup
  UNION {{<<[page |-> 1, info |-> i, resp |-> r]>> :
            r \in {Failed, GranuleSummaryA(pid, i.granule_id)}} :
         i \in {GranuleInfo("g1", "G1", "HOUSE"), GranuleInfo("g2", "G1", "HOUSE")}}

\* the call returned or raised: the next call may be made
Returned ==
  /\ calls < MaxCalls
  /\ calls' = calls + 1
  /\ UNCHANGED <<now, pc, kind, args, parent, count, page_num, offset_mark, page, idx,
                 served, log, start, source, prev, puts, added, runs>>

\* ingest_collections()
CallIngestCollections ==
  /\ pc = "idle"
  /\ \E ds \in CollectionLists : sess' = SaveCollections(sess, ds, now)
  /\ db' = Commit(sess')
  /\ Returned

\* ingest_collection_packages(code, ...): raises when the collection is missing
CallIngestPackages ==
  /\ pc = "idle"
  /\ \E code \in CollCodes, es \in PackageEntries :
       sess' = IF HasCollection(sess, code)
               THEN ReconcilePackages(sess, es, GetCollection(sess, code).id, code, now)
               ELSE sess
  /\ db' = Commit(sess')
  /\ Returned

\* ingest_package_granules(pid, ...): raises when the package is missing
CallIngestGranules ==
  /\ pc = "idle"
  /\ \E pid \in PkgIds : \E es \in GranuleEntries(pid) :
       sess' = IF HasPackage(sess, pid)
               THEN ReconcileGranules(sess, es, GetPackage(sess, pid).id, pid, now)
               ELSE sess
  /\ db' = Commit(sess')
  /\ Returned

\* session.delete(collection); session.commit()
CallDeleteCollection ==
  /\ pc = "idle"
  /\ \E c \in sess.collections : sess' = DeleteCollection(sess, c.collection_code)
  /\ db' = Commit(sess')
  /\ Returned

\* session.delete(package); session.commit()
CallDeletePackage ==
  /\ pc = "idle"
  /\ \E r \in sess.packages : sess' = DeletePackage(sess, r.package_id)
  /\ db' = Commit(sess')
  /\ Returned

----------------------------------------------------------------------------
(* The search cache (ingestion.py, cache_search_results) *)

\* hashlib.sha256(query.encode()).hexdigest(): distinct texts, distinct digests
Sha256(query) == <<"sha256", query>>

Queries == {"q1", "q2"}
\* a payload with a count and one without
ResultPayloads == {[count |-> 2, items |-> "r1"], [items |-> "r2"]}
\* ttl_hours: int = 24
DefaultTtl == 24
TtlArgs == {0, DefaultTtl}

\* results.get("count", 0)
GetCount(results) == IF "count" \in DOMAIN results THEN results.count ELSE 0

\* the update leaves created_at as the first call set it
CacheSearchResultsKeepsCreated(s, query, results, ttl_hours, t1, t2) ==
  LET query_hash == Sha256(query)
      found == {e \in s.search_cache : e.query_hash = query_hash}
      expires_at == t1 + ttl_hours
  IN IF found # {}
     THEN LET cache_entry == CHOOSE e \in found : TRUE
          IN [s EXCEPT !.search_cache = (@ \ {cache_entry}) \cup
                {[cache_entry EXCEPT !.results = results,
                                     !.result_count = GetCount(results),
                                     !.expires_at = expires_at]}]
     ELSE [s EXCEPT !.search_cache = @ \cup
             {[id |-> NextId(s.search_cache), query_hash |-> query_hash, query |-> query,
               results |-> results, result_count |-> GetCount(results),
               created_at |-> t2, expires_at |-> expires_at]}]

\* the expiry counted from the row's creation time
CacheSearchResultsFromCreated(s, query, results, ttl_hours, t1, t2) ==
  LET query_hash == Sha256(query)
      found == {e \in s.search_cache : e.query_hash = query_hash}
  IN IF found # {}
     THEN LET cache_entry == CHOOSE e \in found : TRUE
          IN [s EXCEPT !.search_cache = (@ \ {cache_entry}) \cup
                {[cache_entry EXCEPT !.results = results,
                                     !.result_count = GetCount(results),
                                     !.expires_at = cache_entry.created_at + ttl_hours]}]
     ELSE [s EXCEPT !.search_cache = @ \cup
             {[id |-> NextId(s.search_cache), query_hash |-> query_hash, query |-> query,
               results |-> results, result_count |-> GetCount(results),
               created_at |-> t2, expires_at |-> t2 + ttl_hours]}]

\* the write that drops the entries of the other queries
CacheSearchResultsEvicts(s, query, results, ttl_hours, t1, t2) ==
  LET query_hash == Sha256(query)
      found == {e \in s.search_cache : e.query_hash = query_hash}
      expires_at == t1 + ttl_hours
  IN IF found # {}
     THEN LET cache_entry == CHOOSE e \in found : TRUE
          IN [s EXCEPT !.search_cache =
                {[cache_entry EXCEPT !.results = results,
                                     !.result_count = GetCount(results),
                                     !.created_at = t2,
                                     !.expires_at = expires_at]}]
     ELSE [s EXCEPT !.search_cache =
             {[id |-> NextId(s.search_cache), query_hash |-> query_hash, query |-> query,
               results |-> results, result_count |-> GetCount(results),
               created_at |-> t2, expires_at |-> expires_at]}]

\* cache_search_results without its commit.  t1 is the clock when expires_at is
\* computed, t2 the clock when created_at is set: by the assignment on the
\* update path, by the column default at the flush on the insert path.
CacheSearchResults(s, query, results, ttl_hours, t1, t2) ==
  LET query_hash == Sha256(query)
      found == {e \in s.search_cache : e.query_hash = query_hash}
      expires_at == t1 + ttl_hours
  IN IF found # {}
     THEN LET cache_entry == CHOOSE e \in found : TRUE
          IN [s EXCEPT !.search_cache = (@ \ {cache_entry}) \cup
                {[cache_entry EXCEPT !.results = results,
                                     !.result_count = GetCount(results),
                                     !.created_at = t2,
                                     !.expires_at = expires_at]}]
     ELSE [s EXCEPT !.search_cache = @ \cup
             {[id |-> NextId(s.search_cache), query_hash |-> query_hash, query |-> query,
               results |-> results, result_count |-> GetCount(results),
               created_at |-> t2, expires_at |-> expires_at]}]

\* cache_search_results(query, results, ttl_hours): the clock may advance
\* between its two readings
CallCacheSearchResults ==
  /\ pc = "idle"
  /\ calls < MaxCalls
  /\ \E query \in Queries, results \in ResultPayloads, ttl_hours \in TtlArgs, t2 \in now..MaxTime :
       /\ sess' = CacheSearchResults(sess, query, results, ttl_hours, now, t2)
       /\ now' = t2
       /\ puts' = Append(puts, [query |-> query, results |-> results, ttl_hours |-> ttl_hours,
                                at |-> now, created |-> t2])
  /\ db' = Commit(sess')
  /\ calls' = calls + 1
  /\ UNCHANGED <<pc, kind, args, parent, count, page_num, offset_mark, page, idx,
                 served, log, start, source, prev, added, runs>>

\* an entry is expired once the current time exceeds its expiry
Expired(e, t) == t > e.expires_at

\* the read of the cache: a miss when no entry is stored for the query's hash or
\* the stored entry is expired, the stored payload otherwise
Get(s, query, t) ==
  LET live == {e \in s.search_cache : e.query_hash = Sha256(query) /\ ~Expired(e, t)}
  IN IF live = {} THEN Null ELSE Some((CHOOSE e \in live : TRUE).results)

----------------------------------------------------------------------------
(* The token extraction on its own, over every reference the pieces spell *)

\* the pieces of a query: a text without "=", "&" or "?", the searched
\* substring, a token, the separator
RefPieces == {"prev", OM, "A", Amp}

\* every nextPage value: None, the empty string, and the address "u?" followed
\* by any query the pieces spell
References ==
  {Null, Some(<<>>)} \cup {Some(<<"u?">> \o q) : q \in SeqsUpTo(RefPieces, MaxRefLen)}

\* a page has been received whose nextPage is any reference
InitToken ==
  /\ db = EmptyStore
  /\ sess = db
  /\ source = "wide"
  /\ now = 0
  /\ pc = "page"
  /\ kind \in {"packages", "granules"}
  /\ args = NoArgs
  /\ parent = 0
  /\ count = 0
  /\ page_num = 1
  /\ offset_mark = Star
  /\ page \in {Page(<<>>, np) : np \in References}
  /\ idx = 1
  /\ served = <<>>
  /\ log = <<>>
  /\ start = db
  /\ prev = Null
  /\ calls = 0
  /\ puts = <<>>
  /\ added = <<>>
  /\ runs = [r \in RunIds |-> IdleRun]

\* client.py lines 144-151: the walker after it has yielded the page
WalkerExtract ==
  /\ pc = "page"
  /\ kind = "packages"
  /\ IF WalkGoesOn(page.next_page)
     THEN offset_mark' = ExtractMark(page.next_page.some) /\ pc' = "fetch"
     ELSE offset_mark' = offset_mark /\ pc' = "final"
  /\ UNCHANGED <<db, sess, now, kind, args, parent, count, page_num, page, idx,
                 served, log, start, source, prev, calls, puts, added, runs>>

\* ingestion.py lines 235-242: the granule loop after the page's commit
GranuleExtract ==
  /\ pc = "page"
  /\ kind = "granules"
  /\ IF WalkGoesOn(page.next_page)
     THEN offset_mark' = ExtractMark(page.next_page.some) /\ pc' = "fetch"
     ELSE offset_mark' = offset_mark /\ pc' = "final"
  /\ UNCHANGED <<db, sess, now, kind, args, parent, count, page_num, page, idx,
                 served, log, start, source, prev, calls, puts, added, runs>>

NextToken ==
  \/ WalkerExtract
  \/ GranuleExtract

SpecToken == InitToken /\ [][NextToken]_vars

NextCache ==
  \/ Tick
  \/ CallCacheSearchResults

\* Sequences of cache writes on an empty cache
SpecCache == InitFrom({EmptyStore}, {"wide"}) /\ [][NextCache]_vars

NextStore ==
  \/ Tick
  \/ CallIngestCollections
  \/ CallIngestPackages
  \/ CallIngestGranules
  \/ CallDeleteCollection
  \/ CallDeletePackage

\* Sequences of whole calls and cascading deletes, from any seed
SpecStore == InitFrom(Seeds, {"wide"}) /\ [][NextStore]_vars

\* the call was made with the default ttl_hours and the clock read the same at
\* both of its readings
DefaultWrite == puts'[Len(puts')].ttl_hours = DefaultTtl /\ now' = now

NextEngine ==
  \/ Tick
  \/ CallIngestCollections
  \/ CallIngestPackages
  \/ CallIngestGranules
  \/ CallCacheSearchResults /\ DefaultWrite
  \/ CallDeleteCollection
  \/ CallDeletePackage

\* Sequences of the four calls of the service and of explicit deletes, on a store
\* that holds a collection, a package and a granule
SpecEngine == InitFrom({SeedGranule}, {"wide"}) /\ [][NextEngine]_vars

----------------------------------------------------------------------------
(* The store used directly, as the unit tests use it: an object is built,  *)
(* given to session.add and committed, and read back by its natural key.   *)

\* a JSON column on the way in: json.dumps of None or of a dict of strings
JsonDumps(v) ==
  IF IsNull(v) THEN [t |-> "null"]
  ELSE [t |-> "object",
        members |-> {<<k, IF v[k] = None THEN [t |-> "null"] ELSE [t |-> "string", s |-> v[k]]>> :
                       k \in DOMAIN v}]

\* the load that leaves out the members whose value is null
JsonLoadsDropsNull(j) ==
  IF j.t = "null" THEN Null
  ELSE [k \in {m[1] : m \in {n \in j.members : n[2].t # "null"}} |->
          (CHOOSE m \in j.members : m[1] = k)[2].s]

\* a JSON column on the way out: json.loads
JsonLoads(j) ==
  IF j.t = "null" THEN Null
  ELSE [k \in {m[1] : m \in j.members} |->
          LET m == CHOOSE m \in j.members : m[1] = k
          IN IF m[2].t = "null" THEN None ELSE m[2].s]

\* the columns declared JSON, by table
JsonColumns(table) ==
  IF table = "packages" THEN {"download_links", "related_links", "references", "metadata"}
  ELSE IF table = "granules" THEN {"download_links", "metadata"}
  ELSE IF table = "search_cache" THEN {"results"}
  ELSE {}

\* the row as the INSERT writes it and as a later SELECT loads it
Persist(table, obj) ==
  [c \in DOMAIN obj |-> IF c \in JsonColumns(table) THEN JsonDumps(obj[c]) ELSE obj[c]]
Load(table, stored) ==
  [c \in DOMAIN stored |-> IF c \in JsonColumns(table) THEN JsonLoads(stored[c]) ELSE stored[c]]

\* the column of the natural key, by table
NaturalKey(table) ==
  IF table = "collections" THEN "collection_code"
  ELSE IF table = "packages" THEN "package_id"
  ELSE IF table = "granules" THEN "granule_id"
  ELSE "query_hash"

Tables == {"collections", "packages", "granules", "search_cache"}

\* session.scalar(select(T).where(T.key == key)): the row, or None
Lookup(s, table, key) ==
  LET found == {r \in s[table] : r[NaturalKey(table)] = key}
  IN IF found = {} THEN Null ELSE Some(CHOOSE r \in found : TRUE)

\* the dicts the tests store in a JSON column
Blobs == {Null, [pdf |-> "http://example.com/pdf", xml |-> None]}

\* Collection(...), Package(...), Granule(...), SearchCache(...) as the tests
\* build them; the id and the timestamps are set at the flush
NewObjects(s, t) ==
  {<<"collections", NewCollection(s.collections, Descriptor(code, "Congressional Bills", 100, gc), t)>> :
      code \in CollCodes, gc \in {Null, Some(5)}}
  \cup
  UNION {{<<"packages", [BlankPackage(s.packages, pid, t) EXCEPT
                            !.title = "Test Bill", !.collection_id = c.id,
                            !.collection_code = c.collection_code,
                            !.download_links = b, !.metadata = b]>> :
            pid \in PkgIds, b \in Blobs} : c \in s.collections}
  \cup
  UNION {{<<"granules", [BlankGranule(s.granules, gid, t) EXCEPT
                            !.title = "House Section", !.package_id = r.id,
                            !.package_identifier = r.package_id,
                            !.granule_class = "HOUSE", !.download_links = b]>> :
            gid \in {"g1", "g2"}, b \in Blobs} : r \in s.packages}
  \cup
  {<<"search_cache", [id |-> NextId(s.search_cache), query_hash |-> Sha256(q), query |-> q,
                      results |-> [items |-> "r1", next |-> None], result_count |-> 10,
                      created_at |-> t, expires_at |-> t]>> : q \in Queries}

\* the natural key is declared unique: the INSERT of a second row with the key fails
Unique(s, table, obj) == IsNull(Lookup(s, table, obj[NaturalKey(table)]))

\* session.add(obj); session.commit()
AddAndCommit ==
  /\ pc = "idle"
  /\ calls < MaxCalls
  /\ \E o \in NewObjects(sess, now) :
       /\ Unique(sess, o[1], o[2])
       /\ sess' = [sess EXCEPT ![o[1]] = @ \cup {Load(o[1], Persist(o[1], o[2]))}]
       /\ added' = Append(added, [table |-> o[1], obj |-> o[2]])
  /\ db' = Commit(sess')
  /\ calls' = calls + 1
  /\ UNCHANGED <<now, pc, kind, args, parent, count, page_num, offset_mark, page, idx,
                 served, log, start, source, prev, puts, runs>>

\* session.add(obj); session.commit() raises IntegrityError; session.rollback()
AddRejected ==
  /\ pc = "idle"
  /\ calls < MaxCalls
  /\ \E o \in NewObjects(sess, now) : ~Unique(sess, o[1], o[2])
  /\ sess' = db
  /\ calls' = calls + 1
  /\ UNCHANGED <<db, now, pc, kind, args, parent, count, page_num, offset_mark, page, idx,
                 served, log, start, source, prev, puts, added, runs>>

NextRoundTrip ==
  \/ Tick
  \/ AddAndCommit
  \/ AddRejected

\* Objects added to an empty database one by one
SpecRoundTrip == InitFrom({EmptyStore}, {"wide"}) /\ [][NextRoundTrip]_vars

----------------------------------------------------------------------------
(* Two runs, each with a session of its own (get_session), on one database. *)
(* A session reads the committed rows; what it changed stays pending in it  *)
(* until its commit flushes it: an INSERT for an object given to            *)
(* session.add, an UPDATE by primary key of the changed columns for a       *)
(* loaded row.                                                              *)

\* a package stored by a basic merge
SeedBasic == SavePackageBasic(SeedCollections, PackageInfo("p1", "lm1"), 1, "BILLS", 0)

\* what _save_package_basic leaves pending in a session that read the rows of s
PendingChange(s, pkg_info, collection_id, collection_code, t) ==
  LET view == SavePackageBasic(s, pkg_info, collection_id, collection_code, t)
      new == GetPackage(view, pkg_info.package_id)
  IN IF HasPackage(s, pkg_info.package_id)
     THEN LET old == GetPackage(s, pkg_info.package_id)
          IN [type |-> "update", id |-> old.id,
              cols |-> {c \in DOMAIN new : new[c] # old[c]}, row |-> new]
     ELSE [type |-> "insert", row |-> new]

\* the INSERT violates the unique index on packages.package_id
UniqueViolation(s, op) == op.type = "insert" /\ HasPackage(s, op.row.package_id)

\* the flush of a pending change at time t: the INSERT takes the next primary key
\* and the column defaults; the UPDATE sets the changed columns, and updated_at
\* by its onupdate default where the session did not change it
Flush(s, op, t) ==
  IF op.type = "insert"
  THEN [s EXCEPT !.packages = @ \cup
         {[op.row EXCEPT !.id = NextId(s.packages), !.created_at = t, !.updated_at = t]}]
  ELSE IF op.cols = {} THEN s
  ELSE LET cur == CHOOSE r \in s.packages : r.id = op.id
       IN [s EXCEPT !.packages = Replace(@, cur,
             [c \in DOMAIN cur |-> IF c \in op.cols THEN op.row[c]
                                    ELSE IF c = "updated_at" THEN t ELSE cur[c]])]

\* how many of the runs have committed
Committed == Cardinality({r \in RunIds : runs[r].pc = "committed"})

\* a run looks its collection up, gets a page of one record and reconciles it
RunReconcile ==
  /\ pc = "idle"
  /\ \E r \in RunIds, code \in CollCodes, pkg \in PackageInfos :
       /\ runs[r].pc = "idle"
       /\ HasCollection(db, code)
       /\ runs' = [runs EXCEPT ![r] =
            [pc |-> "pending", info |-> pkg,
             op |-> PendingChange(db, pkg, GetCollection(db, code).id, code, now),
             order |-> 0]]
  /\ UNCHANGED <<db, sess, now, pc, kind, args, parent, count, page_num, offset_mark, page,
                 idx, served, log, start, source, prev, calls, puts, added>>

\* session.commit() of a run: the flush and the commit succeed
RunCommit ==
  /\ pc = "idle"
  /\ \E r \in RunIds :
       /\ runs[r].pc = "pending"
       /\ ~UniqueViolation(db, runs[r].op)
       /\ db' = Commit(Flush(db, runs[r].op, now))
       /\ runs' = [runs EXCEPT ![r].pc = "committed", ![r].order = Committed + 1]
  /\ sess' = db'
  /\ UNCHANGED <<now, pc, kind, args, parent, count, page_num, offset_mark, page,
                 idx, served, log, start, source, prev, calls, puts, added>>

\* session.commit() of a run: the INSERT raises IntegrityError, nothing is written
RunCommitRejected ==
  /\ pc = "idle"
  /\ \E r \in RunIds :
       /\ runs[r].pc = "pending"
       /\ UniqueViolation(db, runs[r].op)
       /\ runs' = [runs EXCEPT ![r].pc = "failed"]
  /\ UNCHANGED <<db, sess, now, pc, kind, args, parent, count, page_num, offset_mark, page,
                 idx, served, log, start, source, prev, calls, puts, added>>

NextTwo == Tick \/ RunReconcile \/ RunCommit \/ RunCommitRejected

SpecTwo == InitFrom({SeedCollections, SeedBasic, SeedFull}, {"wide"}) /\ [][NextTwo]_vars

----------------------------------------------------------------------------
(* Vocabulary of the properties *)

\* rows without their update timestamp
StripUpdated(rows) == {[k \in DOMAIN r \ {"updated_at"} |-> r[k]] : r \in rows}

InRun == pc \in {"fetch", "record", "page_end", "final", "done"}

\* the entries of the log that belong to the pages before page n
EntriesBefore(n) == SelectSeq(log, LAMBDA e : e.page < n)

\* what the run has reconciled so far, replayed on the store s
Replayed(s, es) ==
  IF kind = "packages"
  THEN ReconcilePackages(s, es, parent, args.collection_code, now)
  ELSE ReconcileGranules(s, es, parent, args.package_id, now)

\* The session's view during a run is the loop body applied to the run's records.
ReplayAgrees == (InRun /\ kind \in {"packages", "granules"}) => sess = Replayed(start, log)

----------------------------------------------------------------------------
(* C1 *)

\* C1: idempotency of ingestion.  When a package run has returned, running the
\* same records with the same detail responses once more leaves the same Package
\* rows, the update timestamp aside: as many rows, and every identifier, scalar
\* field and blob equal.
C1_Idempotent ==
  (pc = "done" /\ kind = "packages") =>
    LET once == ReconcilePackages(start, log, parent, args.collection_code, now)
        twice == ReconcilePackages(once, log, parent, args.collection_code, now)
    IN /\ db = once
       /\ Cardinality(twice.packages) = Cardinality(db.packages)
       /\ StripUpdated(twice.packages) = StripUpdated(db.packages)

\* a finished run that merged the same identifier in full and then by the fallback,
\* and created a row
C1_Witness ==
  /\ pc = "done" /\ kind = "packages"
  /\ Len(log) = 2
  /\ log[1].info.package_id = log[2].info.package_id
  /\ IsSummary(log[1].resp)
  /\ log[2].resp = Failed
  /\ Cardinality(db.packages) > Cardinality(start.packages)

----------------------------------------------------------------------------
(* C2 *)

\* a step that reconciled one record of a package or granule run
MergeStep == Len(log') = Len(log) + 1 /\ pc = "record"

\* the identifier that step reconciled
MergedId(key) ==
  LET e == log'[Len(log')]
  IN IF IsSummary(e.resp) THEN e.resp[key] ELSE e.info[key]

\* from the rows `before` to the rows `after`, the identifier id (column key) was
\* upserted: created as exactly one new row, or updated in place
Upserted(before, after, key, id) ==
  /\ Cardinality({r \in after : r[key] = id}) = 1
  /\ IF \E r \in before : r[key] = id
     THEN /\ Cardinality(after) = Cardinality(before)
          /\ \E old \in before, new \in after :
               /\ old[key] = id /\ new[key] = id
               /\ new.id = old.id /\ new.created_at = old.created_at
               /\ after \ {new} = before \ {old}
     ELSE /\ Cardinality(after) = Cardinality(before) + 1
          /\ before \subseteq after

\* C2: upsert correctness.  Reconciling a record (basic or full merge) whose
\* identifier is not stored creates exactly one row with that identifier;
\* reconciling one whose identifier is stored updates that row in place and leaves
\* the number of rows of its table unchanged.  For Packages, Granules and (over the
\* descriptors of one ingest_collections call) Collections.
C2_Upsert ==
  [][ /\ (MergeStep /\ kind = "packages") =>
           Upserted(sess.packages, sess'.packages, "package_id", MergedId("package_id"))
      /\ (MergeStep /\ kind = "granules") =>
           Upserted(sess.granules, sess'.granules, "granule_id", MergedId("granule_id"))
      /\ (pc = "idle" /\ pc' = "done" /\ kind' = "collections") =>
           /\ \A i \in 1..Len(log') :
                LET code == log'[i].info.collection_code
                IN /\ Cardinality({r \in sess'.collections : r.collection_code = code}) = 1
                   /\ \A old \in sess.collections : old.collection_code = code =>
                        \E new \in sess'.collections :
                          /\ new.collection_code = code
                          /\ new.id = old.id /\ new.created_at = old.created_at
           /\ Cardinality(sess'.collections) =
                Cardinality(sess.collections) +
                Cardinality({log'[i].info.collection_code : i \in 1..Len(log')}
                              \ {r.collection_code : r \in sess.collections})
    ]_vars

\* a granule was updated in place after a package and a collection were created
C2_Witness ==
  /\ kind = "granules" /\ pc = "page_end"
  /\ Len(log) = 2
  /\ log[1].info.granule_id = "g2" /\ log[2].info.granule_id = "g1"
  /\ IsSummary(log[1].resp) /\ log[2].resp = Failed
  /\ Cardinality(start.granules) = 1
  /\ Cardinality(sess.granules) = 2
  /\ \E r \in sess.granules : r.granule_id = "g1" /\ r.title = log[2].info.title

----------------------------------------------------------------------------
(* C3 *)

\* the entry of the record a merge step reconciled
Merged == log'[Len(log')]

\* the row of the package pid in the rows
RowOf(rows, pid) == CHOOSE r \in rows : r.package_id = pid

\* a basic merge of a package (fetch_summaries off, or the fallback) onto a row
\* that has a title
BasicMergeOntoFull ==
  /\ MergeStep /\ kind = "packages"
  /\ ~IsSummary(Merged.resp)
  /\ \E r \in sess.packages : r.package_id = Merged.info.package_id /\ r.title # None

\* C3: basic-merge non-destructiveness for Packages.  A basic merge for the
\* identifier of a Package row stored with full detail changes only the
\* last-modified timestamp and the update time of that row; every other field of
\* the row, every other row and every other table is unchanged.
C3_BasicMergeKeepsDetail ==
  [][ BasicMergeOntoFull =>
        LET old == RowOf(sess.packages, Merged.info.package_id)
        IN /\ \E new \in sess'.packages :
                /\ sess'.packages = (sess.packages \ {old}) \cup {new}
                /\ \A f \in DOMAIN old \ {"last_modified", "updated_at"} : new[f] = old[f]
                /\ new.last_modified = Merged.info.last_modified
                /\ new.updated_at = now
           /\ sess'.collections = sess.collections
           /\ sess'.granules = sess.granules
           /\ sess'.search_cache = sess.search_cache
           /\ db' = db
    ]_vars

\* the fallback has refreshed, at a later time, a package stored with its title,
\* links, references and metadata
C3_Witness ==
  /\ kind = "packages" /\ pc = "page_end"
  /\ Len(log) = 1 /\ log[1].resp = Failed
  /\ now = 1
  /\ \E old \in start.packages, new \in sess.packages :
       /\ old.package_id = log[1].info.package_id
       /\ new.package_id = old.package_id
       /\ old.title = "T1" /\ new.title = "T1"
       /\ ~IsNull(new.download_links) /\ new.download_links.pdf_link = "A"
       /\ ~IsNull(new.references) /\ ~IsNull(new.metadata)
       /\ old.last_modified = "lm3" /\ new.last_modified = log[1].info.last_modified
       /\ old.updated_at = 0 /\ new.updated_at = 1

----------------------------------------------------------------------------
(* C4 *)

\* a full merge of a package onto a stored row
FullMergeOntoStored ==
  /\ MergeStep /\ kind = "packages"
  /\ IsSummary(Merged.resp)
  /\ \E r \in sess.packages : r.package_id = Merged.resp.package_id

MetadataKeys == {"bill_type", "bill_number", "bill_version", "publisher", "pages"}

\* the row holds the blobs of the detail record sm and of nothing else
BlobsFrom(row, sm) ==
  /\ IF IsNull(sm.download) THEN IsNull(row.download_links)
     ELSE /\ DOMAIN row.download_links = LinkKeys
          /\ \A k \in LinkKeys : row.download_links[k] = sm.download.fields[k]
  /\ IF IsNull(sm.related) THEN IsNull(row.related_links)
     ELSE /\ DOMAIN row.related_links = DOMAIN sm.related.fields
          /\ \A k \in DOMAIN sm.related.fields : row.related_links[k] = sm.related.fields[k]
  /\ IF IsNull(sm.references) THEN IsNull(row.references)
     ELSE IF sm.references.some = <<>> THEN IsNull(row.references)
     ELSE /\ ~IsNull(row.references)
          /\ Len(row.references.some) = Len(sm.references.some)
          /\ \A i \in 1..Len(sm.references.some) :
               row.references.some[i] = sm.references.some[i].fields
  /\ DOMAIN row.metadata = MetadataKeys
  /\ \A k \in MetadataKeys : row.metadata[k] = sm[k]

\* the keys of a stored blob (none when the blob is absent)
KeysOf(blob) == IF IsNull(blob) THEN {} ELSE DOMAIN blob

\* does the detail record sm supply the key k of the blob column b
Supplies(sm, b, k) ==
  IF b = "download_links" THEN (IF IsNull(sm.download) THEN FALSE ELSE sm.download.fields[k] # None)
  ELSE IF b = "related_links" THEN (IF IsNull(sm.related) THEN FALSE ELSE sm.related.fields[k] # None)
  ELSE sm[k] # None

\* C4 (as amended): full-merge blob replacement.  After a full merge onto a stored
\* Package each blob is computed from the new record alone and no value of the old
\* blob survives: download links and related links are the dump of the record's
\* link set, which has every declared link key (the unset ones with the value
\* None), and are absent when the record has no link set; references are the
\* dumps of the record's references, absent when it has none or an empty list;
\* metadata is always the map of the five keys bill_type, bill_number,
\* bill_version, publisher and pages, each None when the record does not set it.
C4_BlobsFromNewRecord ==
  [][ FullMergeOntoStored =>
        \E new \in sess'.packages :
          /\ new.package_id = Merged.resp.package_id
          /\ BlobsFrom(new, Merged.resp)
    ]_vars

\* C4 as stated: in addition no key of the stored blob survives unless the new
\* record supplies it, and a blob the new record does not supply is stored as absent.
C4_AsStated ==
  [][ FullMergeOntoStored =>
        LET sm == Merged.resp
            old == RowOf(sess.packages, sm.package_id)
            new == RowOf(sess'.packages, sm.package_id)
        IN /\ BlobsFrom(new, sm)
           /\ \A b \in {"download_links", "related_links", "metadata"} :
                \A k \in KeysOf(old[b]) \cap KeysOf(new[b]) : Supplies(sm, b, k)
           /\ IsNull(sm.download) => IsNull(new.download_links)
           /\ IsNull(sm.related) => IsNull(new.related_links)
           /\ IsNull(sm.references) => IsNull(new.references)
           /\ (\A k \in MetadataKeys : sm[k] = None) => IsNull(new.metadata)
    ]_vars

\* a full merge with the xml link only, no related links, an empty reference list
\* and no metadata field, onto a package stored with a pdf link, related links,
\* references and metadata
C4_Witness ==
  /\ kind = "packages" /\ pc = "page_end"
  /\ Len(log) = 1 /\ IsSummary(log[1].resp)
  /\ log[1].resp.download.fields.pdf_link = None
  /\ log[1].resp.download.fields.xml_link = "B"
  /\ \E old \in start.packages, new \in sess.packages :
       /\ old.package_id = log[1].resp.package_id
       /\ new.package_id = old.package_id
       /\ old.download_links.pdf_link = "A"
       /\ ~IsNull(old.related_links) /\ ~IsNull(old.references)
       /\ old.metadata.bill_type = "hr"
       /\ new.download_links.xml_link = "B"
       /\ new.download_links.pdf_link = None
       /\ IsNull(new.related_links) /\ IsNull(new.references)
       /\ new.metadata.bill_type = None

----------------------------------------------------------------------------
(* C5 *)

\* the package identifiers of the entries es are pairwise distinct
DistinctIds(es) ==
  \A i, j \in 1..Len(es) : es[i].info.package_id = es[j].info.package_id => i = j

\* a finished package run with fetch_summaries on, over records with pairwise
\* distinct identifiers none of which was stored when the run began
FreshSummaryRun ==
  /\ pc = "done" /\ kind = "packages"
  /\ args.fetch_summaries
  /\ DistinctIds(log)
  /\ \A i \in 1..Len(log) : ~HasPackage(start, log[i].info.package_id)

\* the row has the detail of the record sm
HasFullDetail(row, sm) ==
  /\ row.title = sm.title
  /\ row.collection_id = parent
  /\ row.collection_code = sm.collection_code
  /\ row.collection_name = sm.collection_name
  /\ row.category = sm.category
  /\ row.date_issued = sm.date_issued
  /\ row.last_modified = sm.last_modified
  /\ row.branch = sm.branch /\ row.congress = sm.congress /\ row.session = sm.session
  /\ BlobsFrom(row, sm)

\* the row has the basic fields of the listing entry info and nothing else
HasBasicOnly(row, info) ==
  /\ row.collection_id = parent
  /\ row.collection_code = args.collection_code
  /\ row.last_modified = info.last_modified
  /\ \A f \in {"title", "collection_name", "category", "date_issued", "branch",
               "congress", "session"} : row[f] = None
  /\ \A f \in {"download_links", "related_links", "references", "metadata"} : IsNull(row[f])

\* C5: partial-failure isolation.  After a run of ingest_collection_packages with
\* fetch_summaries on over n records (pairwise distinct identifiers) none of which
\* was stored, where the detail fetch failed for some of them: every record whose
\* fetch returned has its full detail stored, every record whose fetch failed has
\* a row with only the basic fields, and the returned count is n.
C5_PartialFailureIsolated ==
  FreshSummaryRun =>
    /\ count = Len(log)
    /\ \A i \in 1..Len(log) :
         /\ Cardinality({r \in db.packages : r.package_id = log[i].info.package_id}) = 1
         /\ LET row == RowOf(db.packages, log[i].info.package_id)
            IN IF log[i].resp = Failed
               THEN HasBasicOnly(row, log[i].info)
               ELSE HasFullDetail(row, log[i].resp)

\* a finished run over two new records: the detail fetch failed for the first and
\* returned for the second
C5_Witness ==
  /\ FreshSummaryRun
  /\ Len(log) = 2 /\ count = 2
  /\ log[1].resp = Failed /\ IsSummary(log[2].resp)
  /\ Cardinality(db.packages) = Cardinality(start.packages) + 2

----------------------------------------------------------------------------
(* C7 *)

PagedRun == kind \in {"packages", "granules"}

\* the store after the records of the pages 1..n of this run
AfterPages(n) == Replayed(start, EntriesBefore(n + 1))

\* C7: page-granularity durability.  In every package run and every granule run,
\* when the listing fetch for page k+1 is about to be issued the changes of the
\* pages 1..k are committed and nothing is pending; while page k+1 is in progress
\* the committed state is that of the pages 1..k, so a crash loses at most the
\* changes of the page in progress.
C7_PagesDurable ==
  PagedRun =>
    /\ pc = "fetch" => (db = AfterPages(Len(served)) /\ sess = db)
    /\ pc \in {"record", "page_end"} => db = AfterPages(Len(served) - 1)
    /\ pc = "final" => db \in {AfterPages(Len(served) - 1), AfterPages(Len(served))}
    /\ pc = "done" => db = AfterPages(Len(served))

\* the fetch of page 3 is about to be issued and two pages of changes are committed
C7_Witness ==
  /\ PagedRun /\ pc = "fetch"
  /\ Len(served) = 2 /\ Len(log) = 2
  /\ log[1].page = 1 /\ log[2].page = 2
  /\ db # start
  /\ Cardinality(db.packages) + Cardinality(db.granules) >
       Cardinality(start.packages) + Cardinality(start.granules)

----------------------------------------------------------------------------
(* C8 *)

\* a call of ingest_collection_packages or ingest_package_granules whose parent
\* row is not stored
CallWithoutParent ==
  /\ pc = "idle"
  /\ IF kind' = "packages" THEN ~\E r \in sess.collections : r.collection_code = args'.collection_code
     ELSE IF kind' = "granules" THEN ~\E r \in sess.packages : r.package_id = args'.package_id
     ELSE FALSE

\* C8: precondition failure is fail-fast with zero side effects.  A package run
\* for a collection code without a Collection row, and a granule run for a package
\* identifier without a Package row, raise before any listing or detail fetch, and
\* leave the committed and the pending state of the store unchanged.
C8_FailFast ==
  [][ CallWithoutParent =>
        /\ pc' = "faulted"
        /\ served' = <<>> /\ log' = <<>>
        /\ sess' = sess /\ db' = db
    ]_vars

\* a package run for FR has raised on a store that holds BILLS and a package
C8_Witness ==
  /\ pc = "faulted" /\ kind = "packages"
  /\ served = <<>> /\ log = <<>>
  /\ args.collection_code = "FR"
  /\ sess.packages # {} /\ sess = start /\ db = start

----------------------------------------------------------------------------
(* C9 *)

\* a nextPage value that ends the stream: no reference, or no offsetMark in it
EndOfStream(np) ==
  IF IsNull(np) THEN TRUE ELSE \A i \in 1..Len(np.some) : np.some[i] # OM

\* the page the last listing fetch returned
LastServed == served[Len(served)].page

----------------------------------------------------------------------------
(* C10 *)

Tokens == {<<"A">>, <<"B">>}

RECURSIVE RecordsUpTo(_)
\* the records of the pages 1..n of the run, in order
RecordsUpTo(n) == IF n = 0 THEN <<>> ELSE RecordsUpTo(n - 1) \o served[n].page.records

\* the listing entries of a sequence of log entries
InfosOf(es) == [i \in 1..Len(es) |-> es[i].info]

\* C10: strict cursor order.  In a run the first listing fetch uses the cursor "*";
\* the fetch of page N+1 uses exactly the token carried by the nextPage of page N;
\* when the fetch of page N+1 is issued every record of the pages 1..N has been
\* reconciled, in order; pages are fetched one per iteration, none twice, none
\* skipped.
C10_CursorOrder ==
  PagedRun =>
    /\ Len(served) >= 1 => served[1].cursor = Star
    /\ \A n \in 1..(Len(served) - 1) :
         \A tok \in Tokens :
           served[n].page.next_page \in {RefMark(tok), RefMarkLast(tok)} =>
             served[n + 1].cursor = tok
    /\ \A n \in 1..(Len(served) - 1) :
         \E tok \in Tokens : served[n].page.next_page \in {RefMark(tok), RefMarkLast(tok)}
    /\ \A n \in 1..Len(served) :
         InfosOf(EntriesBefore(n)) = RecordsUpTo(n - 1)
    /\ pc = "fetch" => (page_num = Len(served) /\ InfosOf(log) = RecordsUpTo(Len(served)))

\* three fetches: "*", then the token of page 1, then the token of page 2, with the
\* record of each page reconciled before the next fetch
C10_Witness ==
  /\ PagedRun /\ pc = "record"
  /\ Len(served) = 3
  /\ served[1].cursor = Star
  /\ served[1].page.next_page = RefMark(<<"A">>) /\ served[2].cursor = <<"A">>
  /\ served[2].page.next_page = RefMarkLast(<<"B">>) /\ served[3].cursor = <<"B">>
  /\ Len(log) = 2

----------------------------------------------------------------------------
(* C6 *)

\* rows without the times the store stamps on them
StripTimes(rows) == {[k \in DOMAIN r \ {"created_at", "updated_at"} |-> r[k]] : r \in rows}

\* a package run that was interrupted by a crash, started again and has returned
ResumedDone == pc = "done" /\ kind = "packages" /\ ~IsNull(prev)

\* the store a run from the store s over the records of this run ends in
Uninterrupted(s) == ReconcilePackages(s, log, parent, args.collection_code, now)

----------------------------------------------------------------------------
(* C11 *)

\* C11: page-count ceiling.  A run given max_pages as an integer m (any m >= 0,
\* 0 included) fetches at most m listing pages; a run given no maximum goes on
\* until the page sequence ends.
C11_AsStated ==
  PagedRun =>
    IF IsNull(args.max_pages)
    THEN pc \in {"final", "done"} => EndOfStream(LastServed.next_page)
    ELSE Len(served) <= args.max_pages.some

----------------------------------------------------------------------------
(* C12 *)

\* a listing fetch of the run has raised
ListingFailed == \E n \in 1..Len(served) : served[n].page = Failed

\* C12: a transport error on a listing fetch is fatal.  When the fetch of listing
\* page k raises, the run raises and returns no count, no further record is
\* reconciled and no further page fetched, nothing is pending, and the committed
\* store holds exactly the changes of the pages 1..k-1 (nothing when k = 1).
C12_ListingErrorFatal ==
  (PagedRun /\ ListingFailed) =>
    /\ pc = "faulted"
    /\ LastServed = Failed
    /\ \A n \in 1..(Len(served) - 1) : served[n].page # Failed
    /\ InfosOf(log) = RecordsUpTo(Len(served) - 1)
    /\ db = AfterPages(Len(served) - 1)
    /\ sess = db

\* the fetch of page 3 has raised after two pages were reconciled and committed
C12_Witness ==
  /\ PagedRun /\ pc = "faulted"
  /\ Len(served) = 3 /\ served[3].page = Failed
  /\ Len(log) = 2
  /\ db # start /\ db = sess

----------------------------------------------------------------------------
(* C13 *)

\* C13: return value.  A run that returns normally returns the number of records
\* in the pages it processed, each record counted once per occurrence, whether it
\* created a row, updated one, or fell back to the basic merge.
C13_CountIsRecords ==
  (PagedRun /\ pc = "done") =>
    /\ count = Len(RecordsUpTo(Len(served)))
    /\ count = Len(log)

\* a run has returned 2 for a page that lists one new identifier twice: a row
\* created from the detail, then updated by the fallback
C13_Witness ==
  /\ kind = "packages" /\ pc = "done"
  /\ Len(served) = 1 /\ Len(served[1].page.records) = 2
  /\ served[1].page.records[1].package_id = served[1].page.records[2].package_id
  /\ IsSummary(log[1].resp) /\ log[2].resp = Failed
  /\ count = 2
  /\ Cardinality(db.packages) = Cardinality(start.packages) + 1

----------------------------------------------------------------------------
(* C14 *)

\* the Collection rows a step deleted: their code is stored before and not after
DeletedCollections ==
  {c \in sess.collections : ~\E d \in sess'.collections : d.collection_code = c.collection_code}

\* the Package rows a set of Collection rows owns, and the Granule rows below them
OwnedBy(s, cs) == {r \in s.packages : \E c \in cs : r.collection_id = c.id}
Below(s, ps) == {g \in s.granules : \E r \in ps : g.package_id = r.id}

\* C14: cascade deletion.  Deleting a Collection removes every Package it owns and
\* every Granule of those Packages, and no Package or Granule of another
\* Collection, and no other Collection.
C14_CascadeDelete ==
  [][ DeletedCollections # {} =>
        LET owned == OwnedBy(sess, DeletedCollections)
        IN /\ sess'.collections = sess.collections \ DeletedCollections
           /\ sess'.packages = sess.packages \ owned
           /\ sess'.granules = sess.granules \ Below(sess, owned)
           /\ db' = sess'
    ]_vars

\* BILLS, stored with a package and its granule, is gone with both, and the
\* package of FR is still there
C14_Witness ==
  /\ calls = 3
  /\ \E c \in start.collections : c.collection_code = "BILLS"
  /\ OwnedBy(start, start.collections) # {}
  /\ Below(start, start.packages) # {}
  /\ {c.collection_code : c \in db.collections} = {"FR"}
  /\ db.granules = {}
  /\ Cardinality(db.packages) = 1
  /\ OwnedBy(db, db.collections) = db.packages

----------------------------------------------------------------------------
(* C15 *)

\* every Package row points to exactly one stored Collection row and every
\* Granule row to exactly one stored Package row
Intact(s) ==
  /\ \A r \in s.packages : Cardinality({c \in s.collections : c.id = r.collection_id}) = 1
  /\ \A g \in s.granules : Cardinality({r \in s.packages : r.id = g.package_id}) = 1

\* Collection.packages, the relationship read through the foreign key
PackagesOf(s, c) == {r \in s.packages : r.collection_id = c.id}

\* C15: referential integrity.  After any sequence of ingest_collections,
\* ingest_collection_packages, ingest_package_granules and cascading deletes,
\* every stored Package references a Collection row that exists and every stored
\* Granule a Package row that exists; the packages of the Collections partition
\* the stored Packages.
C15_ReferentialIntegrity ==
  /\ Intact(db)
  /\ Intact(sess)
  /\ UNION {PackagesOf(db, c) : c \in db.collections} = db.packages
  /\ \A c, d \in db.collections : c # d => PackagesOf(db, c) \cap PackagesOf(db, d) = {}

\* a stored granule was deleted with its package, and a package and a granule
\* were ingested after that
C15_Witness ==
  /\ calls = 3
  /\ \E g \in start.granules : ~\E h \in db.granules : h.granule_id = g.granule_id
  /\ db.granules # {}
  /\ db.packages # {}

----------------------------------------------------------------------------
(* C16 *)

\* the positions of the cache writes made for a query text
WritesOf(query) == {n \in 1..Len(puts) : puts[n].query = query}

\* the most recent cache write made for a query text
LastPut(query) == puts[Max(WritesOf(query))]

\* C16: cache put is an upsert keyed on the query hash.  After any sequence of
\* cache_search_results calls there is exactly one entry per distinct query
\* text ever written, and it holds the payload, result count, creation time and
\* expiry of the most recent call for that text.
C16_CacheUpsert ==
  /\ sess = db
  /\ \A e \in db.search_cache : e.query \in Queries /\ WritesOf(e.query) # {}
  /\ \A query \in Queries :
       WritesOf(query) # {} =>
         LET rows == {e \in db.search_cache : e.query_hash = Sha256(query)}
             p == LastPut(query)
         IN /\ Cardinality(rows) = 1
            /\ \A e \in rows :
                 /\ e.query = query
                 /\ e.results = p.results
                 /\ e.result_count = GetCount(p.results)
                 /\ e.created_at = p.created
                 /\ e.expires_at = p.at + p.ttl_hours

\* q1 written, q2 written, q1 written again later with another payload
C16_Witness ==
  /\ Len(puts) = 3
  /\ puts[1].query = "q1" /\ puts[2].query = "q2" /\ puts[3].query = "q1"
  /\ puts[1].results # puts[3].results
  /\ puts[1].created < puts[3].created
  /\ Cardinality(db.search_cache) = 2

----------------------------------------------------------------------------
(* C17 *)

\* the stored entry of a query text
EntryOf(query) == CHOOSE e \in db.search_cache : e.query_hash = Sha256(query)

\* C17: cache TTL.  The stored expiry is the time of the write plus ttl_hours:
\* an entry written with ttl_hours = 0 is expired at every strictly later time,
\* one written with ttl_hours = 24 is valid one hour after the write, and a
\* read of an expired entry is a miss.
C17_CacheTtl ==
  \A query \in Queries :
    WritesOf(query) # {} =>
      LET e == EntryOf(query)
          p == LastPut(query)
      IN /\ e.expires_at = p.at + p.ttl_hours
         /\ p.ttl_hours = 0 =>
              \A t \in 0..(MaxTime + 1) : (t > p.at \/ t > p.created) => Expired(e, t)
         /\ p.ttl_hours = DefaultTtl =>
              ~Expired(e, p.at + 1) /\ ~Expired(e, p.created + 1)
         /\ IF Expired(e, now) THEN IsNull(Get(db, query, now))
                               ELSE Get(db, query, now) = Some(e.results)

\* one hour after both writes the entry written with ttl_hours = 0 is a miss
\* and the entry written with ttl_hours = 24 is a hit
C17_Witness ==
  /\ Len(puts) = 2
  /\ puts[1] = [query |-> "q1", results |-> [count |-> 2, items |-> "r1"], ttl_hours |-> 0,
                at |-> 0, created |-> 0]
  /\ puts[2].query = "q2" /\ puts[2].ttl_hours = DefaultTtl /\ puts[2].at = 0
  /\ now = 1
  /\ IsNull(Get(db, "q1", now))
  /\ Get(db, "q2", now) = Some(puts[2].results)

----------------------------------------------------------------------------
(* C18 *)

\* the last descriptor of the remote list that carries the code
LastDescriptor(code) ==
  log[Max({i \in 1..Len(log) : log[i].info.collection_code = code})].info

\* C18: ingest_collections upserts by code.  After it returns there is, for
\* every descriptor of the remote list, exactly one Collection row with that code,
\* and its name, package count and granule count are the descriptor's (the last
\* one's if the code is repeated); no Collection row is removed; the count
\* returned is the number of descriptors in the list.
C18_CollectionsUpsert ==
  (kind = "collections" /\ pc = "done") =>
    /\ \A i \in 1..Len(log) :
         LET code == log[i].info.collection_code
             d == LastDescriptor(code)
             rows == {c \in db.collections : c.collection_code = code}
         IN /\ Cardinality(rows) = 1
            /\ \A c \in rows : /\ c.collection_name = d.collection_name
                               /\ c.package_count = d.package_count
                               /\ c.granule_count = d.granule_count
    /\ \A c \in start.collections :
         \E c2 \in db.collections : c2.id = c.id /\ c2.collection_code = c.collection_code
    /\ Cardinality(db.collections) =
         Cardinality({c.collection_code : c \in start.collections}
                     \cup {log[i].info.collection_code : i \in 1..Len(log)})
    /\ count = Len(log)
    /\ db = sess

\* a list that repeats the new code FR, ingested over a store that holds BILLS
C18_Witness ==
  /\ kind = "collections" /\ pc = "done"
  /\ count = 2
  /\ log[1].info.collection_code = "FR" /\ log[2].info.collection_code = "FR"
  /\ log[1].info.collection_name # log[2].info.collection_name
  /\ \E c \in start.collections : c.collection_code = "BILLS"
  /\ \E c \in db.collections : c.collection_code = "FR" /\ c.collection_name = log[2].info.collection_name
  /\ Cardinality(db.collections) = 2

----------------------------------------------------------------------------
(* C19 *)

\* the query of a reference: the text after its first "?"
QueryOf(ref) == IF Find(ref, "u?") = 0 THEN <<>> ELSE SubSeq(ref, Find(ref, "u?") + 1, Len(ref))

RECURSIVE Params(_)
\* the parameters of a query: its texts between the separators "&"
Params(q) ==
  IF Find(q, Amp) = 0 THEN <<q>>
  ELSE <<SplitHead(q, Amp)>> \o Params(SubSeq(q, Find(q, Amp) + 1, Len(q)))

\* the parameters named exactly offsetMark: the name is the text before the
\* first "=", and of the pieces only "offsetMark=" holds one
MarkParams(ref) ==
  LET ps == Params(QueryOf(ref))
  IN {i \in 1..Len(ps) : ps[i] # <<>> /\ Head(ps[i]) = OM}

\* the value of the first parameter named exactly offsetMark
MarkValue(ref) ==
  LET ps == Params(QueryOf(ref))
  IN Tail(ps[CHOOSE i \in MarkParams(ref) : \A j \in MarkParams(ref) : i <= j])

\* does the reference np carry a parameter named exactly offsetMark
HasMarkParam(np) == IF Falsy(np) THEN FALSE ELSE MarkParams(np.some) # {}

\* C19: continuation-token extraction.  For every next-page reference the token
\* used for the next fetch is the value of the query parameter named exactly
\* offsetMark, and a reference without such a parameter ends the stream, in the
\* package walker and in the granule loop alike.
C19_AsStated ==
  pc \in {"fetch", "final"} =>
    IF HasMarkParam(page.next_page)
    THEN pc = "fetch" /\ offset_mark = MarkValue(page.next_page.some)
    ELSE pc = "final"

----------------------------------------------------------------------------
(* C20 *)

\* the walk was interrupted after it had yielded a page that carries a token, and
\* a walk started after that has made its first fetch
WalkResumed ==
  /\ kind = "packages" /\ ~IsNull(prev) /\ pc # "idle"
  /\ Len(served) >= 1
  /\ Len(prev.served) >= 1
  /\ IF prev.served[Len(prev.served)].page = Failed THEN FALSE
     ELSE WalkGoesOn(prev.served[Len(prev.served)].page.next_page)

\* the token a caller holds after the last page the interrupted walk yielded
PersistedToken == ExtractMark(prev.served[Len(prev.served)].page.next_page.some)

\* C20: the walker is restartable.  A walk resumed after page N of an
\* interrupted walk starts from the token of page N and so yields the pages
\* N+1, N+2, ... of the uninterrupted walk.
C20_AsStated == WalkResumed => served[1].cursor = PersistedToken

----------------------------------------------------------------------------
(* C21 *)

\* a package run with summaries enabled, or a granule run
DetailRun ==
  IF kind = "packages" THEN args.fetch_summaries ELSE kind = "granules"

\* the cursor the protocol passes to the listing fetch n
ProtocolCursor(n) ==
  IF n = 1 THEN Star ELSE ExtractMark(served[n - 1].page.next_page.some)

\* the protocol stops after page n: the ceiling is reached or the stream ends
ProtocolStops(n) ==
  IF served[n].page = Failed THEN TRUE
  ELSE IF LimitReached(args.max_pages, n) THEN TRUE
  ELSE ~WalkGoesOn(served[n].page.next_page)

\* One protocol, stated without the kind of the run, fixes the cursors, the
\* fallbacks, the stop, the commits and the count from the pages, the failure
\* pattern and max_pages.
Protocol ==
  /\ \A n \in 1..Len(served) :
       /\ n < Len(served) => ~ProtocolStops(n)
       /\ served[n].cursor = ProtocolCursor(n)
  /\ (pc = "fetch" /\ Len(served) >= 1) => ~ProtocolStops(Len(served))
  /\ pc \in {"final", "done"} => ProtocolStops(Len(served))
  /\ pc = "faulted" => (served = <<>> \/ LastServed = Failed)
  /\ InRun =>
       /\ \A i \in 1..Len(log) : log[i].resp = Failed \/ IsSummary(log[i].resp)
       /\ sess = Replayed(start, log)
       /\ count = Len(log)
       /\ pc \in {"fetch", "page_end", "final", "done"} => InfosOf(log) = RecordsUpTo(Len(served))
       /\ pc = "record" =>
            InfosOf(log) = RecordsUpTo(Len(served) - 1) \o SubSeq(page.records, 1, idx - 1)
       /\ pc \in {"fetch", "done"} => db = sess
       /\ pc \in {"record", "page_end"} => db = AfterPages(Len(served) - 1)
       /\ pc = "final" => db \in {AfterPages(Len(served) - 1), sess}

\* C21: granule ingestion follows the protocol of package ingestion with
\* summaries enabled: the same listing cursors, the same detail-then-basic
\* fallback per record, the same stop, the same committed state at every page
\* boundary and the same count, for the same pages, failures and max_pages.
C21_SameProtocol == DetailRun => Protocol

\* a granule run stopped by max_pages = 2 after two pages, one record merged in
\* full and one by the fallback
C21_Witness ==
  /\ kind = "granules" /\ pc = "done"
  /\ args.max_pages = Some(2)
  /\ Len(served) = 2 /\ WalkGoesOn(served[2].page.next_page)
  /\ Len(log) = 2 /\ IsSummary(log[1].resp) /\ log[2].resp = Failed
  /\ count = 2

\* a package run with summaries that went the same way
C21_PackageTwin ==
  /\ kind = "packages" /\ pc = "done" /\ args.fetch_summaries
  /\ args.max_pages = Some(2)
  /\ Len(served) = 2 /\ WalkGoesOn(served[2].page.next_page)
  /\ Len(log) = 2 /\ IsSummary(log[1].resp) /\ log[2].resp = Failed
  /\ count = 2

----------------------------------------------------------------------------
(* C22 *)

\* the natural keys the objects added to a table carry
KeysAdded(table) ==
  {added[i].obj[NaturalKey(table)] : i \in {j \in 1..Len(added) : added[j].table = table}}

\* the natural keys a lookup may be made with
KeysOfTable(table) ==
  IF table = "collections" THEN CollCodes
  ELSE IF table = "packages" THEN PkgIds
  ELSE IF table = "granules" THEN {"g1", "g2"}
  ELSE {Sha256(q) : q \in Queries}

----------------------------------------------------------------------------
(* C23 *)

\* C23: the run reaches Done unless an error occurs that is not per-record.  A
\* run whose parent exists and whose page sequence is finite or cut by a
\* max_pages of at least 1 ends, whatever detail fetches fail: it returns a
\* count unless a listing fetch raised; a run is Faulted only by a missing
\* parent or a listing fetch that raised.
C23_RunEnds ==
  /\ [](pc = "faulted" => (served = <<>> \/ LastServed = Failed))
  /\ (pc = "fetch") ~> (pc = "done" \/ pc = "faulted")

\* a run against the endless catalogue has returned at its max_pages of 2, one
\* detail fetch having failed
C23_Witness ==
  /\ source = "endless" /\ pc = "done" /\ PagedRun
  /\ args.max_pages = Some(2)
  /\ Len(served) = 2 /\ WalkGoesOn(served[2].page.next_page)
  /\ \E i \in 1..Len(log) : log[i].resp = Failed
  /\ count = 2

----------------------------------------------------------------------------
(* C24 *)

\* every page fetched so far has all of its records reconciled
PagesComplete == InfosOf(log) = RecordsUpTo(Len(served))

\* C24: the page-count ceiling is checked only between pages.  A run never
\* stops part-way through a page because of max_pages: when it fetches again,
\* breaks or returns, every page it fetched has all of its records reconciled;
\* and no listing fetch is issued for a page beyond the ceiling.
C24_AsStated ==
  PagedRun =>
    /\ pc \in {"fetch", "page_end", "final", "done"} => PagesComplete
    /\ IF IsNull(args.max_pages) THEN TRUE
       ELSE \A n \in 1..Len(served) : n <= args.max_pages.some

\* the part of C24 that does not depend on the ceiling of 0: no run leaves a
\* page part-way, and a ceiling of at least 1 is kept
C24_BetweenPages ==
  PagedRun =>
    /\ pc \in {"fetch", "page_end", "final", "done"} => PagesComplete
    /\ IF IsNull(args.max_pages) THEN TRUE
       ELSE args.max_pages.some >= 1 => Len(served) <= args.max_pages.some

----------------------------------------------------------------------------
(* C25 *)

\* C25: final flush.  Whenever a package run or a granule run returns, whether
\* it stopped at max_pages, at an absent nextPage or at a nextPage without
\* offsetMark, every change reconciled during the run is committed and the
\* session holds no uncommitted change.
C25_FinalFlush ==
  (PagedRun /\ pc = "done") =>
    /\ db = Replayed(start, log)
    /\ sess = db

\* a granule run stopped by max_pages after its first page, whose rows only the
\* commit after the loop has written
C25_Witness ==
  /\ kind = "granules" /\ pc = "done"
  /\ args.max_pages = Some(1) /\ Len(served) = 1
  /\ WalkGoesOn(served[1].page.next_page)
  /\ Len(log) = 1
  /\ db # start
  /\ Cardinality(db.granules) > Cardinality(start.granules)

----------------------------------------------------------------------------
(* C26 *)

\* the column of the natural identifier of the rows a run reconciles
IdColumn == IF kind = "packages" THEN "package_id" ELSE "granule_id"

\* the rows a run reconciles, in the store s
RunRows(s) == IF kind = "packages" THEN s.packages ELSE s.granules

\* the row with the identifier id
RowBy(rows, key, id) == CHOOSE r \in rows : r[key] = id

\* a row without the times the store stamps on it
WithoutTimes(r) == [k \in DOMAIN r \ {"created_at", "updated_at"} |-> r[k]]

\* a full merge onto a stored row
FullMergeStep ==
  /\ MergeStep /\ PagedRun
  /\ IsSummary(Merged.resp)
  /\ \E r \in RunRows(sess) : r[IdColumn] = Merged.resp[IdColumn]

\* other prior contents of the row old: nothing but the identifier, and other
\* values in every mapped column
OtherPriors(old) ==
  IF kind = "packages"
  THEN LET blank == [BlankPackage({}, old.package_id, 0) EXCEPT !.id = old.id]
       IN {blank,
           [blank EXCEPT !.title = "other", !.collection_id = 9, !.collection_code = "FR",
                         !.collection_name = "other", !.category = "other",
                         !.date_issued = "other", !.last_modified = "other",
                         !.branch = "other", !.congress = "other", !.session = "other",
                         !.download_links = Links("Z", "Z"),
                         !.related_links = [other_link |-> "o"],
                         !.references = Some(<<[collection_code |-> "o"]>>),
                         !.metadata = [note |-> "n"]]}
  ELSE LET blank == [BlankGranule({}, old.granule_id, 0) EXCEPT !.id = old.id]
       IN {blank,
           [blank EXCEPT !.title = "other", !.package_id = 9, !.package_identifier = "other",
                         !.granule_class = "other", !.collection_code = "other",
                         !.date_issued = "other", !.last_modified = "other",
                         !.download_links = Links("Z", "Z"),
                         !.metadata = [note |-> "n"]]}

\* the store s with the row old replaced by the row alt
WithPrior(s, old, alt) ==
  IF kind = "packages" THEN [s EXCEPT !.packages = Replace(@, old, alt)]
  ELSE [s EXCEPT !.granules = Replace(@, old, alt)]

\* the full merge of this run's kind of the detail record r onto the store s
FullMerge(s, r) ==
  IF kind = "packages" THEN SavePackageSummary(s, r, parent, now)
  ELSE SaveGranuleSummary(s, r, parent, args.package_id, now)

\* C26: the full merge overwrites every mapped field and never the identifier.
\* After a full merge of the record r onto a stored Package or Granule row the
\* natural identifier of the row is unchanged, and two stores that differ only in
\* the prior contents of that row hold, creation and update times aside, the
\* same row after the same merge.
C26_FullMergeOverwrites ==
  [][ FullMergeStep =>
        LET id == Merged.resp[IdColumn]
            old == RowBy(RunRows(sess), IdColumn, id)
            new == RowBy(RunRows(sess'), IdColumn, id)
        IN /\ Cardinality({r \in RunRows(sess') : r[IdColumn] = id}) = 1
           /\ new.id = old.id
           /\ new[IdColumn] = old[IdColumn]
           /\ RunRows(sess') \ {new} = RunRows(sess) \ {old}
           /\ \A alt \in OtherPriors(old) :
                WithoutTimes(RowBy(RunRows(FullMerge(WithPrior(sess, old, alt), Merged.resp)),
                                   IdColumn, id))
                  = WithoutTimes(new)
    ]_vars

\* the granule g1, stored with a class, links and metadata, has been merged in
\* full with a record that has none of them
C26_Witness ==
  /\ kind = "granules" /\ pc \in {"record", "page_end"}
  /\ Len(log) >= 1 /\ log[1].resp = GranuleSummaryB(args.package_id, "g1")
  /\ \E old \in start.granules :
       old.granule_id = "g1" /\ old.granule_class = "SENATE" /\ ~IsNull(old.download_links)
  /\ \E new \in sess.granules :
       new.granule_id = "g1" /\ new.granule_class = None /\ IsNull(new.download_links)

----------------------------------------------------------------------------
(* C27 *)

\* a basic merge of a granule (the fallback) onto a stored row
GranuleBasicMergeOntoStored ==
  /\ MergeStep /\ kind = "granules"
  /\ ~IsSummary(Merged.resp)
  /\ \E r \in sess.granules : r.granule_id = Merged.info.granule_id

\* C27: the basic merge of a Granule is non-destructive.  When a Granule row
\* with the identifier exists, the basic merge refreshes only the last-modified
\* timestamp and the update time and leaves every other stored field of the row
\* (title, class, date, download links, metadata, owning package) untouched.
C27_AsStated ==
  [][ GranuleBasicMergeOntoStored =>
        LET old == RowBy(sess.granules, "granule_id", Merged.info.granule_id)
        IN \E new \in sess'.granules :
             /\ sess'.granules = (sess.granules \ {old}) \cup {new}
             /\ \A f \in DOMAIN old \ {"last_modified", "updated_at"} : new[f] = old[f]
    ]_vars

\* what the code does there: the title is the listing's, the update time is
\* refreshed, and every other field, last_modified included, is as it was
C27_TitleOverwritten ==
  [][ GranuleBasicMergeOntoStored =>
        LET old == RowBy(sess.granules, "granule_id", Merged.info.granule_id)
        IN sess'.granules = (sess.granules \ {old}) \cup
             {[old EXCEPT !.title = Merged.info.title, !.updated_at = now]}
    ]_vars

----------------------------------------------------------------------------
(* C28 *)

\* the identifier a log entry was reconciled under
EntryId(e) == IF IsSummary(e.resp) THEN e.resp[IdColumn] ELSE e.info[IdColumn]

\* the last entry of the log reconciled under the identifier id
LastEntry(id) == log[Max({i \in 1..Len(log) : EntryId(log[i]) = id})]

\* the row carries what the merge of the entry e writes
Carries(row, e) ==
  IF IsSummary(e.resp)
  THEN WithoutTimes(RowBy(RunRows(FullMerge(sess, e.resp)), IdColumn, EntryId(e)))
         = WithoutTimes(row)
  ELSE IF kind = "packages" THEN row.last_modified = e.info.last_modified
  ELSE row.title = e.info.title

\* C28: records are reconciled in the order the remote source returned them.
\* When an identifier occurs more than once in a page, or in pages not yet
\* committed, the run stores exactly one row for it, without a uniqueness
\* error, and the row carries the values of the last occurrence.
C28_LastOccurrenceWins ==
  (PagedRun /\ InRun) =>
    /\ InfosOf(log) =
         (IF pc = "record"
          THEN RecordsUpTo(Len(served) - 1) \o SubSeq(page.records, 1, idx - 1)
          ELSE RecordsUpTo(Len(served)))
    /\ \A i \in 1..Len(log) :
         LET id == EntryId(log[i])
             rows == {r \in RunRows(sess) : r[IdColumn] = id}
         IN /\ Cardinality(rows) = 1
            /\ \A r \in rows : Carries(r, LastEntry(id))

\* a page that lists the new package p1 twice, with two last-modified values:
\* one row, with the second
C28_Witness ==
  /\ kind = "packages" /\ pc = "done" /\ ~args.fetch_summaries
  /\ Len(served) = 1 /\ Len(log) = 2
  /\ log[1].info.package_id = "p1" /\ log[2].info.package_id = "p1"
  /\ log[1].info.last_modified # log[2].info.last_modified
  /\ ~\E r \in start.packages : r.package_id = "p1"
  /\ Cardinality({r \in db.packages : r.package_id = "p1"}) = 1
  /\ \A r \in db.packages : r.package_id = "p1" => r.last_modified = log[2].info.last_modified

----------------------------------------------------------------------------
(* C29 *)

\* the entries a run with fetch_summaries disabled logs over the same records
AsBasic(es) == [i \in 1..Len(es) |-> [es[i] EXCEPT !.resp = NotAsked]]

\* a package run with fetch_summaries enabled has returned, and every detail
\* fetch it made failed
AllDetailsFailed ==
  /\ pc = "done" /\ kind = "packages" /\ args.fetch_summaries
  /\ \A i \in 1..Len(log) : log[i].resp = Failed

\* C29: fallback equals basic mode.  A package run with fetch_summaries enabled
\* in which every detail fetch fails ends in the stored state, and returns the
\* count, of a run with fetch_summaries disabled over the same pages from the
\* same starting store.
C29_FallbackIsBasic ==
  AllDetailsFailed =>
    /\ db = ReconcilePackages(start, AsBasic(log), parent, args.collection_code, now)
    /\ count = Len(AsBasic(log))
    /\ InfosOf(log) = RecordsUpTo(Len(served))

\* two records, one of them stored before with another last-modified value, and
\* both detail fetches failed
C29_Witness ==
  /\ AllDetailsFailed
  /\ Len(log) = 2 /\ count = 2
  /\ \E r \in start.packages :
       r.package_id = log[1].info.package_id /\ r.last_modified # log[1].info.last_modified
  /\ db # start

----------------------------------------------------------------------------
(* C30 *)

\* both runs reconciled a record with the identifier pid and called commit
BothCommitted(pid) ==
  \A r \in RunIds : runs[r].pc \in {"committed", "failed"} /\ runs[r].info.package_id = pid

\* the run whose commit was the last to succeed
LastCommitter == CHOOSE r \in RunIds : runs[r].pc = "committed" /\ runs[r].order = Committed

\* C30: last-committer-wins.  When two ingestion runs with separate sessions
\* reconcile a record with the same identifier and both commit, both commits
\* succeed, exactly one row with that identifier exists afterwards, and it holds
\* the values written by the run that committed last.
C30_AsStated ==
  \A pid \in PkgIds :
    BothCommitted(pid) =>
      /\ \A r \in RunIds : runs[r].pc = "committed"
      /\ Cardinality({p \in db.packages : p.package_id = pid}) = 1
      /\ \A p \in db.packages :
           p.package_id = pid => p.last_modified = runs[LastCommitter].info.last_modified

\* The same with the commits that succeed taken as given is violated as well: a
\* run that assigns the value it loaded sends no UPDATE of that column, and the
\* row keeps what the earlier committer wrote.
C30_WhenBothSucceed ==
  \A pid \in PkgIds :
    (BothCommitted(pid) /\ \A r \in RunIds : runs[r].pc = "committed") =>
      \A p \in db.packages :
        p.package_id = pid => p.last_modified = runs[LastCommitter].info.last_modified

\* The unique index holds whatever the interleaving: one row at most for an
\* identifier, and exactly one when both runs called commit.
C30_OneRow ==
  \A pid \in PkgIds :
    /\ Cardinality({p \in db.packages : p.package_id = pid}) <= 1
    /\ BothCommitted(pid) => Cardinality({p \in db.packages : p.package_id = pid}) = 1

----------------------------------------------------------------------------
(* C31 *)

\* the natural keys stored in a table
StoredKeys(s, table) == {r[NaturalKey(table)] : r \in s[table]}

\* the rows of a table that the step removes
Removed(table) == {r \in db[table] : r[NaturalKey(table)] \notin StoredKeys(db', table)}

\* C31: the engine never deletes.  Across any sequence of ingest_collections,
\* ingest_collection_packages, ingest_package_granules and cache_search_results
\* calls the sets of stored collection codes, package identifiers, granule
\* identifiers and query hashes only grow; a row disappears only through an
\* explicit delete of it or of its parent.
C31_NeverDeletes ==
  [][/\ Removed("search_cache") = {}
     /\ Removed("collections") # {} => CallDeleteCollection
     /\ \A r \in Removed("packages") :
          \/ CallDeletePackage
          \/ \E c \in Removed("collections") : r.collection_id = c.id
     /\ \A g \in Removed("granules") :
          \E r \in Removed("packages") : g.package_id = r.id]_vars

\* three calls have added the collection FR, the package p2 and a cache entry
\* to what was stored, and nothing of it is gone
C31_Witness ==
  /\ start = SeedGranule /\ calls = 3
  /\ StoredKeys(db, "collections") = StoredKeys(start, "collections") \cup {"FR"}
  /\ StoredKeys(db, "packages") = StoredKeys(start, "packages") \cup {"p2"}
  /\ StoredKeys(db, "granules") = StoredKeys(start, "granules")
  /\ Cardinality(db.search_cache) = 1

----------------------------------------------------------------------------
(* C32 *)

\* a call of ingest_collections is under way or has ended
CollectionsCall == kind = "collections" /\ pc # "idle"

\* C32: ingest_collections is atomic at its single commit.  If the remote list
\* fetch fails or the process crashes before the final commit, the committed
\* store holds none of that call's inserts or updates; after the commit it holds
\* all of them.
C32_AtomicCommit ==
  CollectionsCall =>
    /\ pc \in {"record", "final", "faulted", "crashed"} => db = start
    /\ pc = "done" =>
         /\ db = SaveCollections(start, page.records, now)
         /\ sess = db
         /\ count = Len(page.records)

\* a crash after the first of two collections was reconciled: the new code FR is
\* not in the committed store and the stored BILLS is as it was
C32_Witness ==
  /\ CollectionsCall /\ pc = "crashed"
  /\ Len(page.records) = 2 /\ idx = 2
  /\ page.records[1].collection_code = "BILLS" /\ page.records[2].collection_code = "FR"
  /\ HasCollection(start, "BILLS") /\ ~HasCollection(db, "FR")
  /\ SaveCollection(start, page.records[1], now) # start

\* the call returned: both collections of the list are committed
C32_Committed ==
  /\ CollectionsCall /\ pc = "done"
  /\ Len(page.records) = 2 /\ db # start
  /\ \A i \in 1..2 : HasCollection(db, page.records[i].collection_code)

----------------------------------------------------------------------------
(* C33 *)

\* the denormalized parent keys of the store s agree with its foreign references
ParentKeysAgree(s) ==
  /\ \A r \in s.packages :
       \A c \in s.collections : r.collection_id = c.id => r.collection_code = c.collection_code
  /\ \A g \in s.granules :
       \A r \in s.packages : g.package_id = r.id => g.package_identifier = r.package_id

\* C33: the denormalized parent key agrees with the foreign reference.  After any
\* sequence of basic and full merges, runs for different collections that list
\* the same package and detail records with a collection code of their own
\* included, every Package's stored collection code is the code of the Collection
\* its foreign reference points to, and every Granule's stored package identifier
\* is the identifier of the Package it references.
C33_AsStated == ParentKeysAgree(sess) /\ ParentKeysAgree(db)

----------------------------------------------------------------------------
(* C34 *)

\* the package identifiers listed in the pages the run processed
ListedIds == {RecordsUpTo(Len(served))[i].package_id : i \in 1..Len(RecordsUpTo(Len(served)))}

\* C34: every listed record is stored.  After ingest_collection_packages returns
\* normally, every package identifier that appeared in a processed listing page
\* has exactly one Package row, in both modes and whether or not its detail fetch
\* failed, and a row the run created is owned by the run's Collection.
C34_ListedIsStored ==
  (pc = "done" /\ kind = "packages") =>
    /\ \A pid \in ListedIds : Cardinality({r \in db.packages : r.package_id = pid}) = 1
    /\ \A r \in db.packages :
         (r.package_id \in ListedIds /\ ~HasPackage(start, r.package_id))
           => r.collection_id = parent

\* a run with summaries on a store without packages: p1 was stored from its
\* detail record, p2 by the fallback, and both belong to the run's collection
C34_Witness ==
  /\ pc = "done" /\ kind = "packages" /\ args.fetch_summaries
  /\ start.packages = {} /\ ListedIds = {"p1", "p2"}
  /\ \E i \in 1..Len(log) : log[i].resp = Failed
  /\ \E i \in 1..Len(log) : IsSummary(log[i].resp)
  /\ \A pid \in ListedIds : \E r \in db.packages : r.package_id = pid /\ r.collection_id = parent

----------------------------------------------------------------------------
(* C35 *)

\* the entries of the store s for the other hashes than h
OtherEntries(s, h) == {e \in s.search_cache : e.query_hash # h}

\* C35: cache_search_results changes only its own entry.  A call for the query q
\* creates or updates the entry whose hash is that of q and leaves every other
\* entry and every Collection, Package and Granule row unchanged.
C35_OnlyOwnEntry ==
  [][CallCacheSearchResults =>
       LET h == Sha256(puts'[Len(puts')].query)
       IN /\ Cardinality({e \in db'.search_cache : e.query_hash = h}) = 1
          /\ Cardinality({e \in db.search_cache : e.query_hash = h}) <= 1
          /\ OtherEntries(db', h) = OtherEntries(db, h)
          /\ db'.collections = db.collections
          /\ db'.packages = db.packages
          /\ db'.granules = db.granules
          /\ sess' = db']_vars

\* the second query was cached beside the first, in a store that holds a
\* collection, a package and a granule
C35_Witness ==
  /\ Len(puts) = 2 /\ puts[1].query # puts[2].query
  /\ Cardinality(db.search_cache) = 2
  /\ db.collections # {} /\ db.packages # {} /\ db.granules # {}

----------------------------------------------------------------------------
(* C36 *)

\* the last-modified value of the record a log entry reconciled: of the detail
\* record for a full merge, of the listing entry for a basic one
StampOf(e) == IF IsSummary(e.resp) THEN e.resp.last_modified ELSE e.info.last_modified

\* C36: last write wins on the sync timestamp.  After any sequence of merges for
\* one package identifier the stored last-modified value is that of the most
\* recently reconciled record for the identifier, basic or full, whether it is
\* older or newer than the value stored before.
C36_LastStampWins ==
  (kind = "packages" /\ InRun) =>
    /\ \A i \in 1..Len(log) :
         \A r \in sess.packages :
           r.package_id = EntryId(log[i]) => r.last_modified = StampOf(LastEntry(r.package_id))
    /\ pc = "done" =>
         \A i \in 1..Len(log) :
           \A r \in db.packages :
             r.package_id = EntryId(log[i]) => r.last_modified = StampOf(LastEntry(r.package_id))

\* p1 was stored with the newer value lm3; the run's last record for p1 was a
\* basic one with the older value lm1, and lm1 is stored
C36_Witness ==
  /\ kind = "packages" /\ pc = "done"
  /\ \E old \in start.packages : old.package_id = "p1" /\ old.last_modified = "lm3"
  /\ Len(log) >= 1 /\ EntryId(log[Len(log)]) = "p1" /\ ~IsSummary(log[Len(log)].resp)
  /\ Later("lm3", StampOf(log[Len(log)]))
  /\ \E r \in db.packages : r.package_id = "p1" /\ r.last_modified = "lm1"

====
